---- MODULE Spec2Model ----
(***************************************************************************)
(* A model of the synthetic T1D cohort generator: the observation sampler  *)
(* (PatientGenerator), the running tracker (CohortTracker), the two-pass   *)
(* orchestrator (main.py), the serializer (ResponseBuilder), the retrofit  *)
(* pass (retrofit_cohort.py) and the validator (CohortValidator).          *)
(*                                                                         *)
(* Units.  Glucose and basal insulin are kept in tenths (the code rounds   *)
(* both to one decimal), so 122 mg/dL is 1220.  A date is a day number; a  *)
(* datetime is a record [day, tod].  Ratios and means are compared by      *)
(* cross-multiplication in the integers.                                   *)
(*                                                                         *)
(* Random draws are nondeterministic choices over (a bounded part of) the  *)
(* support of the distribution the code draws from.                        *)
(***************************************************************************)
EXTENDS Integers, Sequences, FiniteSets, TLC

VARIABLES
    pc,                     \* position of the driver (CLI invocation sequence)
    clock,                  \* wall clock read by datetime.now(): [day, tod]
    args,                   \* arguments of generate_responses
    intervention_patients,  \* main.py: patients drawn into the intervention group
    schedule,               \* main.py: the shuffled observation schedule
    idx,                    \* main.py: loop index into the schedule
    tracker,                \* CohortTracker: target_total, target_intervention, stats
    baseline,               \* PatientGenerator._baseline_characteristics
    generated,              \* main.py: generated_observations buffer
    dir_exists,             \* storage: whether the output directory exists
    dir,                    \* storage: file stem -> document
    last,                   \* what the last entry point did (steps, error, result)
    first_output,           \* the directory left by the first of two runs
    phase_pool,             \* phases of the schedule entries not yet consumed
    rng                     \* np.random.default_rng(seed): run number and the
                            \* draws the seed gave in the first run

vars == <<pc, clock, args, intervention_patients, schedule, idx, tracker,
          baseline, generated, dir_exists, dir, last, first_output, phase_pool, rng>>

-----------------------------------------------------------------------------
(* Bounds of the model *)

MaxObservations == 2     \* pipeline cohorts have num_patients * observations_per_patient <= this
MaxDocs == 3             \* a pre-existing directory holds at most this many documents
MaxClockDays == 1        \* the wall clock of a run is day 0..MaxClockDays
MaxBalancePatients == 20 \* phase-balance runs: num_patients <= this
MaxBalanceObs == 4       \* phase-balance runs: observations_per_patient <= this

-----------------------------------------------------------------------------
(* models/cohort_params.py: CohortParameters (scaled to integers) *)

AgeMin == 18
AgeMax == 45
YearsSinceDiagnosisMin == 1
YearsSinceDiagnosisMax == 30
BasalInsulinMeanTenths == 140
BasalInsulinMinTenths == 50
BasalInsulinMaxTenths == 300
GlucoseFollicularMeanTenths == 1180
LutealGlucoseIncreaseTenths == 81
AwakeningsFollicularMeanTenths == 8
LutealAwakeningsIncreaseTenths == 6

\* symptom probabilities in percent, keyed as retrofit_cohort keys them
fol_targets == [ns \in {"night-sweats", "palpitations", "dizziness"} |->
                 CASE ns = "night-sweats" -> 12
                   [] ns = "palpitations" -> 5
                   [] ns = "dizziness"    -> 4]
lut_targets == [ns \in {"night-sweats", "palpitations", "dizziness"} |->
                 CASE ns = "night-sweats" -> 22
                   [] ns = "palpitations" -> 11
                   [] ns = "dizziness"    -> 9]

-----------------------------------------------------------------------------
(* Arithmetic helpers *)

Abs(x) == IF x < 0 THEN -x ELSE x
Min(a, b) == IF a < b THEN a ELSE b
Max(a, b) == IF a > b THEN a ELSE b

\* floor of a / b for b > 0 (TLA+ \div floors)
FloorDiv(a, b) == a \div b

\* int(x) of Python for the rational a / b, b > 0: truncation toward zero
IntTrunc(a, b) == IF a >= 0 THEN a \div b ELSE -((-a) \div b)

\* round(a / b) to the nearest integer, b > 0 (ties away from floor)
RoundDiv(a, b) == (2 * a + b) \div (2 * b)

RECURSIVE SumSeq(_)
SumSeq(s) ==
    IF Len(s) = 0 THEN 0
    ELSE IF Len(s) = 1 THEN s[1]
    ELSE LET h == Len(s) \div 2
         IN  SumSeq(SubSeq(s, 1, h)) + SumSeq(SubSeq(s, h + 1, Len(s)))

RECURSIVE SumOver(_, _)
\* sum of f[i] for i in the finite set S
SumOver(f, S) ==
    IF S = {} THEN 0
    ELSE LET v == f[CHOOSE j \in S : TRUE]
             same == {j \in S : f[j] = v}
         IN  v * Cardinality(same) + SumOver(f, S \ same)

Range(s) == {s[i] : i \in DOMAIN s}

RECURSIVE KSubsets(_, _)
\* the subsets of S with exactly k elements: rng.choice(S, size=k, replace=False)
KSubsets(S, k) ==
    IF k = 0 THEN {{}}
    ELSE IF k = 1 THEN {{x} : x \in S}
    ELSE IF Cardinality(S) < k THEN {}
    ELSE LET x == CHOOSE y \in S : TRUE
         IN  {T \cup {x} : T \in KSubsets(S \ {x}, k - 1)} \cup KSubsets(S \ {x}, k)

-----------------------------------------------------------------------------
(* Dates.  strftime("%Y-%m-%d") keeps the day and drops the time of day;    *)
(* datetime.fromisoformat of a date string gives midnight of that day.      *)

Follicular == "follicular"
Luteal == "luteal"
Phases == {Follicular, Luteal}

DateTime(d, t) == [day |-> d, tod |-> t]
strftime_date(dt) == dt.day
fromisoformat_date(d) == DateTime(d, 0)
timedelta_add(dt, days) == DateTime(dt.day + days, dt.tod)
\* (a - b).days: whole days, floored
days_between(a, b) == IF a.tod >= b.tod THEN a.day - b.day ELSE a.day - b.day - 1

\* models/cycle_utils.py
calculate_cycle_day(lmp_date, observation_date) ==
    (days_between(observation_date, lmp_date) % 28) + 1

\* a phase split one day early: days 1-13 follicular
cycle_phase_split_at_13(cycle_day) ==
    IF 1 <= cycle_day /\ cycle_day <= 13 THEN Follicular ELSE Luteal

get_cycle_phase(cycle_day) ==
    IF 1 <= cycle_day /\ cycle_day <= 14 THEN Follicular ELSE Luteal

calculate_phase_from_lmp(lmp_date, observation_date) ==
    get_cycle_phase(calculate_cycle_day(lmp_date, observation_date))

\* cycle_utils.generate_lmp_for_phase with the default cycle_day_range: the
\* LMP datetimes random.randint(min_days - 1, max_days - 1) can give, within
\* the draws days_ago
cycle_utils_generate_lmp_for_phase(observation_date, target_phase, days_ago) ==
    LET min_days == IF target_phase = Follicular THEN 1 ELSE 15
        max_days == IF target_phase = Follicular THEN 14 ELSE 28
    IN  {timedelta_add(observation_date, -d) :
           d \in {x \in days_ago : min_days - 1 <= x /\ x <= max_days - 1}}

-----------------------------------------------------------------------------
(* Free text and substring tests.  The texts a document can hold are a      *)
(* bounded universe; `x in text` is decided per text of that universe.      *)

\* response_builder.py: the only text the serializer ever writes to linkId 10
PlaceholderText == "My glucose levels tend to be higher during certain times of the month."
\* texts of hand-written documents (inputs of retrofit / validate only)
CycleAwareText == "I follow a Cycle-Aware dosing plan."
AdjustedBasalText == "I adjusted my basal rate before my period."
SubjectiveTexts == {PlaceholderText, CycleAwareText, AdjustedBasalText}

intervention_keywords ==
    {"cycle-aware", "adjusted my basal", "cycle tracking", "menstrual phase",
     "reduced my basal"}

\* keyword in text.lower()
InLower(keyword, text) ==
    \/ keyword = "cycle-aware"       /\ text = CycleAwareText
    \/ keyword = "adjusted my basal" /\ text = AdjustedBasalText
    \/ keyword = "sweat"       /\ text \in {"Night sweats"}
    \/ keyword = "palpitation" /\ text \in {"Palpitations", "Heart palpitations"}
    \/ keyword = "dizziness"   /\ text \in {"Dizziness", "Dizziness on standing"}

\* needle in text (case-sensitive)
InText(needle, text) ==
    \/ needle = "Night sweats" /\ text \in {"Night sweats"}
    \/ needle = "Palpitations" /\ text \in {"Palpitations"}
    \/ needle = "Dizziness"    /\ text \in {"Dizziness", "Dizziness on standing"}
    \/ needle = "pump"         /\ text \in {"insulin pump"}
    \/ needle = "Very regular"     /\ text = "Very regular (predictable)"
    \/ needle = "Somewhat regular" /\ text = "Somewhat regular"
    \/ needle = "Irregular"        /\ text = "Irregular"

-----------------------------------------------------------------------------
(* Documents.  A QuestionnaireResponse is                                   *)
(*   [id, authored, subject, item]                                          *)
(* where item[k] is the answer list of linkId k (1..10); an item without    *)
(* an "answer" key has the empty list.  subject is the patient id of        *)
(* subject.reference ("Patient/<id>"), or <<>> when the document has no     *)
(* subject.  A file stem is the part of the file name between "response-"   *)
(* and ".json": <<patient, n>> for "patient-000p-obs-000n", <<>> for "".    *)

NoSubject == <<>>

\* response_builder.py: ResponseBuilder._build_symptoms_item
build_symptoms_item(symptoms) == symptoms

\* response_builder.py: ResponseBuilder._build_subjective_text_item
build_subjective_text_item == <<PlaceholderText>>

\* response_builder.py: ResponseBuilder.build_response; now is datetime.now()
build_response(patient_profile, response_id, now) ==
    [id       |-> response_id,
     authored |-> now,
     subject  |-> NoSubject,
     item     |-> << <<patient_profile.age>>,
                     <<patient_profile.years_since_diagnosis>>,
                     <<patient_profile.insulin_delivery_method>>,
                     <<patient_profile.lmp>>,
                     <<patient_profile.cycle_regularity>>,
                     <<patient_profile.basal_insulin>>,
                     <<patient_profile.nighttime_glucose>>,
                     <<patient_profile.sleep_awakenings>>,
                     build_symptoms_item(patient_profile.symptoms),
                     build_subjective_text_item >>]

\* response_builder.py: ResponseBuilder.save_response: one file per response
save_response(d, response, stem) ==
    [n \in (DOMAIN d) \cup {stem} |-> IF n = stem THEN response ELSE d[n]]

-----------------------------------------------------------------------------
(* retrofit_cohort.py: classification of a document *)

PhaseThresholdTenths == 1220

extract_phase(response) ==
    IF response.item[7][1] < PhaseThresholdTenths THEN Follicular ELSE Luteal

is_intervention(response) == InLower("cycle-aware", response.item[10][1])

RECURSIVE get_symptoms_of(_)
get_symptoms_of(answers) ==
    IF answers = <<>> THEN <<>>
    ELSE LET text == Head(answers)
             rest == get_symptoms_of(Tail(answers))
         IN  IF InLower("sweat", text) THEN <<"night-sweats">> \o rest
             ELSE IF InLower("palpitation", text) THEN <<"palpitations">> \o rest
             ELSE IF InLower("dizziness", text) THEN <<"dizziness">> \o rest
             ELSE rest

get_symptoms(response) == get_symptoms_of(response.item[9])

symptom_display(symptom) ==
    CASE symptom = "night-sweats" -> "Night sweats"
      [] symptom = "palpitations" -> "Heart palpitations"
      [] symptom = "dizziness"    -> "Dizziness on standing"

set_symptoms(response, symptoms) ==
    [response EXCEPT !.item[9] = [i \in 1..Len(symptoms) |-> symptom_display(symptoms[i])]]

-----------------------------------------------------------------------------
(* validators/cohort_validator.py: reading a document *)

None == "None"

\* CohortValidator._extract_answer: the FIRST answer of the item, or None
has_answer(response, link_id) == response.item[link_id] # <<>>
extract_answer(response, link_id) ==
    IF has_answer(response, link_id) THEN response.item[link_id][1] ELSE None

\* CohortValidator._calculate_phase: from LMP (linkId 4) and `authored`
calculate_phase(response) ==
    IF ~has_answer(response, 4) THEN None
    ELSE calculate_phase_from_lmp(fromisoformat_date(extract_answer(response, 4)),
                                  response.authored)

\* the keyword test of validate_intervention_subgroup_size / _glucose_improvement
validator_is_intervention(response) ==
    /\ has_answer(response, 10)
    /\ \E keyword \in intervention_keywords :
          InLower(keyword, extract_answer(response, 10))

-----------------------------------------------------------------------------
(* generators/patient_generator.py: PatientGenerator.                       *)
(* Every sampler is the set of values its draw can return, within the draw  *)
(* sets D the caller bounds the model with.  A mean shift or a probability  *)
(* multiplier moves the distribution and leaves that set as it is: the      *)
(* normal draws have full support before clipping, and no symptom           *)
(* probability reaches 0 or 1.                                              *)

\* a dict as a function over its keys
EmptyDict == <<>>
HasKey(d, k) == k \in DOMAIN d
DictGet(d, k, default) == IF HasKey(d, k) THEN d[k] ELSE default
DictPut(d, k, v) == [x \in (DOMAIN d) \cup {k} |-> IF x = k THEN v ELSE d[x]]

StableKeys == {"age", "years_since_diagnosis", "insulin_delivery_method", "cycle_regularity"}

generate_age(shift, D) == {a \in D.age : AgeMin <= a /\ a <= AgeMax}

generate_years_since_diagnosis(age, D) ==
    {y \in D.years : YearsSinceDiagnosisMin <= y
                     /\ y <= Min(age - 1, YearsSinceDiagnosisMax)}

generate_insulin_delivery_method(prefer_pump, prefer_injection, D) ==
    D.delivery \cap {"Insulin Pump", "Multiple Daily Injections"}

generate_cycle_regularity(D) ==
    D.regularity \cap {"Very regular (predictable)", "Somewhat regular", "Irregular"}

\* PatientGenerator.generate_lmp_for_phase: any label but "follicular" takes
\* the luteal branch
generate_lmp_for_phase(observation_date, target_phase, D) ==
    LET days_ago == IF target_phase = Follicular
                    THEN {d \in D.days_ago : 0 <= d /\ d < 14}
                    ELSE {d \in D.days_ago : 14 <= d /\ d < 28}
    IN  {strftime_date(timedelta_add(observation_date, -d)) : d \in days_ago}

\* PatientGenerator.generate_basal_insulin: {[cache, dose]}
generate_basal_insulin(cache, patient_id, phase, in_intervention, shift, D) ==
    LET c1 == IF patient_id \in DOMAIN cache THEN cache
              ELSE DictPut(cache, patient_id, EmptyDict)
        c2s == IF HasKey(c1[patient_id], "basal_baseline") THEN {c1}
               ELSE {DictPut(c1, patient_id, DictPut(c1[patient_id], "basal_baseline", b)) :
                       b \in {x \in D.basal_baseline :
                                BasalInsulinMinTenths <= x /\ x <= BasalInsulinMaxTenths}}
        doses == {x \in D.basal : BasalInsulinMinTenths <= x /\ x <= BasalInsulinMaxTenths}
    IN  {[cache |-> c2, dose |-> x] : c2 \in c2s, x \in doses}

GlucoseFloorTenths == 500

generate_nighttime_glucose(phase, in_intervention, shift, D) ==
    {g \in D.glucose : g >= GlucoseFloorTenths}

generate_sleep_awakenings(phase, shift, D) == {a \in D.awakenings : a >= 0}

\* the symptom names in the order of the probs dict
SymptomNames == <<"Night sweats", "Dizziness", "Palpitations", "Weakness/Fatigue">>

RECURSIVE IsSubsequenceOf(_, _)
IsSubsequenceOf(s, t) ==
    IF s = <<>> THEN TRUE
    ELSE IF t = <<>> THEN FALSE
    ELSE IF Head(s) = Head(t) THEN IsSubsequenceOf(Tail(s), Tail(t))
    ELSE IsSubsequenceOf(s, Tail(t))

generate_symptoms(phase, prob_modifiers, D) ==
    {s \in D.symptoms : IsSubsequenceOf(s, SymptomNames)}

\* a sampler that draws the traits again on every call, cached or not
reroll_stable_patient_characteristics(cache, patient_id, correction_factors, D) ==
    {[cache |-> DictPut(cache, patient_id, st), stable |-> st] :
       st \in {[k \in StableKeys |->
                  CASE k = "age" -> t[1]
                    [] k = "years_since_diagnosis" -> t[2]
                    [] k = "insulin_delivery_method" -> t[3]
                    [] k = "cycle_regularity" -> t[4]] :
               t \in {u \in D.age \X D.years \X D.delivery \X D.regularity :
                        AgeMin <= u[1] /\ u[1] <= AgeMax /\ u[2] < u[1]}}}

\* PatientGenerator.generate_stable_patient_characteristics: {[cache, stable]}
generate_stable_patient_characteristics(cache, patient_id, correction_factors, D) ==
    IF patient_id \in DOMAIN cache
    THEN {[cache |-> cache, stable |-> cache[patient_id]]}
    ELSE LET age_shift == DictGet(correction_factors, "age_shift", 0)
             prefer_pump == HasKey(correction_factors, "prefer_pump")
             prefer_injection == HasKey(correction_factors, "prefer_injection")
             made == {[k \in StableKeys |->
                         CASE k = "age" -> a
                           [] k = "years_since_diagnosis" -> y
                           [] k = "insulin_delivery_method" -> m
                           [] k = "cycle_regularity" -> r] :
                      <<a, y, m, r>> \in
                        {t \in generate_age(age_shift, D) \X D.years
                               \X generate_insulin_delivery_method(prefer_pump, prefer_injection, D)
                               \X generate_cycle_regularity(D) :
                           t[2] \in generate_years_since_diagnosis(t[1], D)}}
         IN  {[cache |-> DictPut(cache, patient_id, st), stable |-> st] : st \in made}

\* PatientGenerator.generate_observation: {[cache, error, returned]}, where
\* returned is <<observation>>, or <<>> when the call raised.
\* There is no check of target_phase: a label outside Phases runs the else
\* branches and comes back in the observation.
generate_observation(cache, patient_id, observation_date, target_phase, in_intervention, correction_factors, D) ==
    LET corrections == correction_factors
        stables == generate_stable_patient_characteristics(cache, patient_id, corrections, D)
        basal_shift == IF target_phase = Follicular
                       THEN DictGet(corrections, "basal_insulin_shift", 0)
                       ELSE DictGet(corrections, "luteal_basal_shift", 0)
        awakenings_shift == IF target_phase = Follicular
                            THEN DictGet(corrections, "follicular_awakenings_shift", 0)
                            ELSE DictGet(corrections, "luteal_awakenings_shift", 0)
        glucose_shift == IF target_phase = Follicular
                         THEN DictGet(corrections, "follicular_glucose_shift", 0)
                         ELSE IF target_phase = Luteal
                         THEN DictGet(corrections, "luteal_glucose_shift", 0)
                         ELSE 0
    IN  UNION {
          IF ~(StableKeys \subseteq DOMAIN st.stable)
          THEN {[cache |-> st.cache, error |-> "KeyError", returned |-> <<>>]}
          ELSE {[cache |-> b.cache,
                 error |-> "none",
                 returned |-> <<
                   [patient_id |-> patient_id,
                    observation_date |-> strftime_date(observation_date),
                    phase |-> target_phase,
                    in_intervention |-> in_intervention,
                    age |-> st.stable["age"],
                    years_since_diagnosis |-> st.stable["years_since_diagnosis"],
                    insulin_delivery_method |-> st.stable["insulin_delivery_method"],
                    cycle_regularity |-> st.stable["cycle_regularity"],
                    lmp |-> lmp,
                    basal_insulin |-> b.dose,
                    nighttime_glucose |-> g,
                    sleep_awakenings |-> a,
                    symptoms |-> sy] >>] :
                 lmp \in generate_lmp_for_phase(observation_date, target_phase, D),
                 b \in generate_basal_insulin(st.cache, patient_id, target_phase,
                                              in_intervention, basal_shift, D),
                 g \in generate_nighttime_glucose(target_phase, in_intervention,
                                                  glucose_shift, D),
                 a \in generate_sleep_awakenings(target_phase, awakenings_shift, D),
                 sy \in generate_symptoms(target_phase, EmptyDict, D)}
          : st \in stables}

-----------------------------------------------------------------------------
(* generators/cohort_tracker.py: CohortStats and CohortTracker *)

CohortStats ==
    [total_observations |-> 0, follicular_count |-> 0, luteal_count |-> 0,
     intervention_count |-> 0, ages |-> <<>>, pump_count |-> 0, injection_count |-> 0,
     very_regular_count |-> 0, somewhat_regular_count |-> 0, irregular_count |-> 0,
     follicular_glucose |-> <<>>, luteal_glucose |-> <<>>,
     luteal_glucose_non_intervention |-> <<>>, luteal_glucose_intervention |-> <<>>,
     follicular_basal |-> <<>>, luteal_basal |-> <<>>,
     follicular_awakenings |-> <<>>, luteal_awakenings |-> <<>>,
     follicular_night_sweats |-> 0, follicular_palpitations |-> 0,
     follicular_dizziness |-> 0,
     luteal_night_sweats |-> 0, luteal_palpitations |-> 0, luteal_dizziness |-> 0]

\* CohortTracker.__init__
CohortTracker(target_total, target_intervention) ==
    [target_total |-> target_total, target_intervention |-> target_intervention,
     stats |-> CohortStats]

Bump(b) == IF b THEN 1 ELSE 0

\* a tracker that counts the observation and nothing else
record_total_only(st, observation) == [st EXCEPT !.total_observations = @ + 1]

\* CohortTracker.record_observation on the stats: any phase label but
\* 'follicular' is counted as luteal
record_stats(st, observation) ==
    LET phase == observation.phase
        fol == (phase = Follicular)
        ii == observation.in_intervention
        regularity == observation.cycle_regularity
        symptoms == Range(observation.symptoms)
        glucose == observation.nighttime_glucose
    IN  [st EXCEPT
          !.total_observations = @ + 1,
          !.follicular_count = @ + Bump(fol),
          !.luteal_count = @ + Bump(~fol),
          !.intervention_count = @ + Bump(ii),
          !.ages = Append(@, observation.age),
          !.pump_count = @ + Bump(observation.insulin_delivery_method = "Insulin Pump"),
          !.injection_count = @ + Bump(observation.insulin_delivery_method # "Insulin Pump"),
          !.very_regular_count = @ + Bump(InText("Very regular", regularity)),
          !.somewhat_regular_count =
              @ + Bump(~InText("Very regular", regularity)
                       /\ InText("Somewhat regular", regularity)),
          !.irregular_count =
              @ + Bump(~InText("Very regular", regularity)
                       /\ ~InText("Somewhat regular", regularity)),
          !.follicular_glucose = IF fol THEN Append(@, glucose) ELSE @,
          !.follicular_basal = IF fol THEN Append(@, observation.basal_insulin) ELSE @,
          !.follicular_awakenings =
              IF fol THEN Append(@, observation.sleep_awakenings) ELSE @,
          !.follicular_night_sweats = @ + Bump(fol /\ "Night sweats" \in symptoms),
          !.follicular_palpitations = @ + Bump(fol /\ "Palpitations" \in symptoms),
          !.follicular_dizziness = @ + Bump(fol /\ "Dizziness" \in symptoms),
          !.luteal_glucose = IF fol THEN @ ELSE Append(@, glucose),
          !.luteal_basal = IF fol THEN @ ELSE Append(@, observation.basal_insulin),
          !.luteal_awakenings =
              IF fol THEN @ ELSE Append(@, observation.sleep_awakenings),
          !.luteal_glucose_intervention =
              IF ~fol /\ ii THEN Append(@, glucose) ELSE @,
          !.luteal_glucose_non_intervention =
              IF ~fol /\ ~ii THEN Append(@, glucose) ELSE @,
          !.luteal_night_sweats = @ + Bump(~fol /\ "Night sweats" \in symptoms),
          !.luteal_palpitations = @ + Bump(~fol /\ "Palpitations" \in symptoms),
          !.luteal_dizziness = @ + Bump(~fol /\ "Dizziness" \in symptoms)]

\* a tracker that drops the observation
record_nothing(t, observation) == t

record_observation(t, observation) ==
    [t EXCEPT !.stats = record_stats(t.stats, observation)]

\* a flag that ignores the quota
intervention_for_every_slot(t, remaining) == TRUE

\* CohortTracker.should_use_intervention
should_use_intervention(t, remaining) ==
    LET needed == t.target_intervention - t.stats.intervention_count
    IN  IF needed <= 0 THEN FALSE
        ELSE IF needed >= remaining THEN TRUE
        ELSE 2 * needed > remaining

\* rng.random() in [0, 1), by the tenth it falls into: u stands for the
\* draws r with u / 10 <= r < (u + 1) / 10, each tenth equally likely
UnitDraws == 0..9

\* a phase choice by a fair coin whatever the balance
phase_by_fair_coin(t, u) == IF u < 5 THEN Follicular ELSE Luteal

\* CohortTracker.get_target_phase_for_balance(rng), for the draw u of
\* rng.random(): r < 0.60 is u < 6, r < 0.50 is u < 5, r < 0.40 is u < 4
target_phase_for_draw(t, u) ==
    LET f == t.stats.follicular_count
        n == t.stats.total_observations
        follicular_prob == IF 2 * f < n THEN 6 ELSE IF 2 * f > n THEN 4 ELSE 5
    IN  IF n = 0 THEN (IF u < 5 THEN Follicular ELSE Luteal)
        ELSE IF 10 * f < 4 * n THEN Follicular
        ELSE IF 10 * f > 6 * n THEN Luteal
        ELSE IF u < follicular_prob THEN Follicular ELSE Luteal

\* a phase choice that ignores the running balance
unbalanced_phase(t) == Phases

\* CohortTracker.get_target_phase_for_balance: the phases the call can return.
\* current_ratio = follicular_count / total_observations against 0.40, 0.50, 0.60
get_target_phase_for_balance(t) ==
    LET f == t.stats.follicular_count
        n == t.stats.total_observations
    IN  IF n = 0 THEN {Follicular, Luteal}
        ELSE IF 10 * f < 4 * n THEN {Follicular}
        ELSE IF 10 * f > 6 * n THEN {Luteal}
        ELSE {Follicular, Luteal}

\* CohortTracker.get_correction_factors: a dict key -> value, the values as
\* rationals <<numerator, denominator>>.  Glucose and basal shifts are in tenths.
AgeMeanTenths == 315
PumpRatioPercent == 65
LutealInsulinIncreasePercent == 14

Rat(a, b) == <<a, b>>

\* the dict {k: v} when cond holds, else the empty dict
Entry(cond, k, v) == IF cond THEN [x \in {k} |-> v] ELSE EmptyDict
\* dict union (the key sets of the sections are disjoint)
Merge(d1, d2) == [x \in (DOMAIN d1) \cup (DOMAIN d2) |->
                    IF x \in DOMAIN d1 THEN d1[x] ELSE d2[x]]

\* a shift entry for a running list against a target mean tn/td:
\* emitted when len(values) > minlen and |target - mean| > fn/fd;
\* the value is (target - mean) * dn/dd
ShiftEntry(values, minlen, tn, td, fn, fd, dn, dd, key) ==
    LET n == Len(values)
        sum == SumSeq(values)
        \* target - mean = (tn * n - td * sum) / (td * n)
        num == tn * n - td * sum
    IN  Entry(n > minlen /\ Abs(num) * fd > fn * td * n, key,
              Rat(dn * num, dd * td * n))

\* a boost/reduce entry for a symptom count out of n against target percent
RateEntries(count, n, target, below, boost, above, reduce, key) ==
    IF n > 5 /\ 100 * count < (target - below) * n
    THEN Entry(TRUE, key \o "_boost", boost)
    ELSE Entry(n > 5 /\ 100 * count > (target + above) * n, key \o "_reduce", reduce)

get_correction_factors(t) ==
    LET st == t.stats
        n == st.total_observations
        f == st.follicular_count
        remaining == t.target_total - n
        total_delivery == st.pump_count + st.injection_count
        \* diff = |f / n - 0.50| > 0.08
        strong == 100 * Abs(2 * f - n) > 16 * n
        weight == IF strong THEN Rat(30, 10) ELSE Rat(25, 10)
        phase_balance ==
            IF 100 * f < 48 * n THEN Entry(TRUE, "prefer_follicular", weight)
            ELSE Entry(100 * f > 52 * n, "prefer_luteal", weight)
        pump ==
            IF total_delivery > 0
                 /\ 100 * st.pump_count < (PumpRatioPercent - 5) * total_delivery
            THEN Entry(TRUE, "prefer_pump", Rat(15, 10))
            ELSE Entry(total_delivery > 0
                         /\ 100 * st.pump_count > (PumpRatioPercent + 5) * total_delivery,
                       "prefer_injection", Rat(15, 10))
        sections == <<
            phase_balance,
            pump,
            ShiftEntry([i \in DOMAIN st.ages |-> 10 * st.ages[i]], 10,
                       AgeMeanTenths, 1, 15, 1, 7, 100, "age_shift"),
            ShiftEntry(st.follicular_glucose, 5, GlucoseFollicularMeanTenths, 1,
                       30, 1, 7, 10, "follicular_glucose_shift"),
            ShiftEntry(st.luteal_glucose_non_intervention, 5,
                       GlucoseFollicularMeanTenths + LutealGlucoseIncreaseTenths, 1,
                       30, 1, 7, 10, "luteal_glucose_shift"),
            ShiftEntry(st.follicular_basal, 5, BasalInsulinMeanTenths, 1,
                       10, 1, 1, 1, "basal_insulin_shift"),
            ShiftEntry(st.luteal_basal, 5,
                       BasalInsulinMeanTenths * (100 + LutealInsulinIncreasePercent), 100,
                       10, 1, 8, 10, "luteal_basal_shift"),
            ShiftEntry(st.follicular_awakenings, 5, AwakeningsFollicularMeanTenths, 10,
                       1, 10, 2, 1, "follicular_awakenings_shift"),
            ShiftEntry(st.luteal_awakenings, 5,
                       AwakeningsFollicularMeanTenths + LutealAwakeningsIncreaseTenths, 10,
                       1, 10, 2, 1, "luteal_awakenings_shift"),
            RateEntries(st.follicular_night_sweats, f, fol_targets["night-sweats"],
                        2, Rat(35, 10), 2, Rat(2, 10), "follicular_sweats"),
            RateEntries(st.follicular_palpitations, f, fol_targets["palpitations"],
                        1, Rat(40, 10), 2, Rat(2, 10), "follicular_palpitations"),
            RateEntries(st.follicular_dizziness, f, fol_targets["dizziness"],
                        1, Rat(40, 10), 2, Rat(2, 10), "follicular_dizziness"),
            RateEntries(st.luteal_night_sweats, st.luteal_count, lut_targets["night-sweats"],
                        3, Rat(30, 10), 3, Rat(3, 10), "luteal_sweats"),
            RateEntries(st.luteal_palpitations, st.luteal_count, lut_targets["palpitations"],
                        2, Rat(35, 10), 3, Rat(3, 10), "luteal_palpitations"),
            RateEntries(st.luteal_dizziness, st.luteal_count, lut_targets["dizziness"],
                        2, Rat(35, 10), 3, Rat(3, 10), "luteal_dizziness") >>
        merged[k \in 0..Len(sections)] ==
            IF k = 0 THEN EmptyDict ELSE Merge(merged[k - 1], sections[k])
    IN  IF n = 0 \/ remaining <= 0 THEN EmptyDict ELSE merged[Len(sections)]

-----------------------------------------------------------------------------
(* retrofit_cohort.py: load, adjust, save.                                  *)
(* `responses` is the list load_cohort returns; a group is the set of its   *)
(* indices (the group lists alias the loaded records, so an edit through a  *)
(* group edits `responses`).  An adjust operation is the set of its         *)
(* outcomes [error, responses]; error is "none" unless the call raises.     *)

\* file stems in the order sorted() gives the file names: "response-.json"
\* first, then by patient number and observation number
StemLess(a, b) ==
    \/ Len(a) = 0 /\ Len(b) > 0
    \/ Len(a) > 0 /\ Len(b) > 0 /\
         (a[1] < b[1] \/ (a[1] = b[1] /\ a[2] < b[2]))

SortStems(S) ==
    [i \in 1..Cardinality(S) |->
       CHOOSE x \in S : Cardinality({y \in S \ {x} : StemLess(y, x)}) = i - 1]

\* load_cohort: the documents of "response-*.json", sorted by file name
load_cohort(d) == LET names == SortStems(DOMAIN d)
                  IN  [i \in 1..Len(names) |-> d[names[i]]]

\* save_cohort: every response is written to the file named after its
\* subject reference; a response without subject goes to "response-.json"
save_cohort(responses, d) ==
    LET stems == {responses[i].subject : i \in DOMAIN responses}
        \* the writes go in list order: a file keeps the last response written to it
        last_written(stem) ==
            CHOOSE i \in DOMAIN responses :
              /\ responses[i].subject = stem
              /\ \A j \in DOMAIN responses : responses[j].subject = stem => j <= i
    IN  [n \in (DOMAIN d) \cup stems |->
           IF n \in stems THEN save_response(d, responses[last_written(n)], n)[n]
           ELSE d[n]]

\* the exceptions raised, with the message that tells them apart
NaNToInteger == "ValueError: cannot convert float NaN to integer"
NoResponsesFound == "ValueError: No responses found"
EmptySequence == "ValueError: min() arg is an empty sequence"

Outcome(error, responses) == [error |-> error, responses |-> responses]

awakenings_of(response) == response.item[8][1]
set_awakenings(response, v) == [response EXCEPT !.item[8] = <<v>>]

\* int(gap * n) in double precision: where the real product gap * n is a
\* whole number the double product can fall just below it, and int() then
\* gives one less.  For groups of up to 9 records (sum of awakenings up to
\* 6 per record) this happens for n = 5 only, at these sums.
int_gap_deficit(tn, n, sum) ==
    IF n = 5 /\ tn = 8 /\ sum \in {5, 6, 7, 12, 14, 17} THEN 1
    ELSE IF n = 5 /\ tn = 14 /\ sum \in {2, 3, 4, 5, 6, 23, 28} THEN 1
    ELSE 0

\* adjust_awakenings(responses, target_mean): target_mean = tn / 10.
\* On an empty group np.mean is nan, no comparison with nan holds, and
\* int(gap * n) raises ValueError.  num_changes = int(gap * n) truncates.
adjust_awakenings(responses, group, tn) ==
    LET n == Cardinality(group)
        values == [i \in group |-> awakenings_of(responses[i])]
        sum == SumOver(values, group)
        \* target_mean - current_mean = (tn * n - 10 * sum) / (10 * n)
        num == tn * n - 10 * sum
        need_increase == num > 0
        num_changes == IntTrunc(Abs(num), 10) - int_gap_deficit(tn, n, sum)
        candidates == IF need_increase THEN {i \in group : values[i] <= 1}
                      ELSE {i \in group : values[i] >= 2}
        num_to_change == Min(num_changes, Cardinality(candidates))
    IN  IF n = 0 THEN {Outcome(NaNToInteger, responses)}
        ELSE IF 100 * Abs(num) < 10 * n THEN {Outcome("none", responses)}
        ELSE IF num_changes = 0 THEN {Outcome("none", responses)}
        ELSE IF candidates = {} THEN {Outcome("none", responses)}
        ELSE {Outcome("none",
                [i \in DOMAIN responses |->
                   IF i \in to_change
                   THEN set_awakenings(responses[i],
                          IF need_increase THEN values[i] + 1
                          ELSE Max(0, values[i] - 1))
                   ELSE responses[i]]) :
              to_change \in KSubsets(candidates, num_to_change)}

RECURSIVE remove_first(_, _)
\* list.remove(x): drops the first occurrence
remove_first(s, x) ==
    IF s = <<>> THEN <<>>
    ELSE IF Head(s) = x THEN Tail(s)
    ELSE <<Head(s)>> \o remove_first(Tail(s), x)

has_symptom(response, symptom) == symptom \in Range(get_symptoms(response))

\* one iteration of the loop of adjust_symptom_rates; target_rate in percent
adjust_one_symptom(responses, group, symptom, target_rate) ==
    LET n == Cardinality(group)
        having == {i \in group : has_symptom(responses[i], symptom)}
        current_count == Cardinality(having)
        target_count == IntTrunc(target_rate * n, 100)
        gap == target_count - current_count
        candidates == IF gap > 0 THEN group \ having ELSE having
        k == Min(Abs(gap), Cardinality(candidates))
    IN  IF n = 0 THEN {Outcome("ZeroDivisionError", responses)}
        ELSE IF 100 * Abs(100 * current_count - target_rate * n) < 100 * n
        THEN {Outcome("none", responses)}
        ELSE IF gap = 0 THEN {Outcome("none", responses)}
        ELSE {Outcome("none",
                [i \in DOMAIN responses |->
                   IF i \in to_modify
                   THEN set_symptoms(responses[i],
                          IF gap > 0 THEN Append(get_symptoms(responses[i]), symptom)
                          ELSE remove_first(get_symptoms(responses[i]), symptom))
                   ELSE responses[i]]) :
              to_modify \in KSubsets(candidates, k)}

\* adjust_symptom_rates: the symptoms in the order of the target dict; an
\* iteration runs on each outcome of the one before that did not raise
adjust_symptom_rates(responses, group, target_rates) ==
    LET s1 == adjust_one_symptom(responses, group, "night-sweats",
                                 target_rates["night-sweats"])
        s2 == UNION {IF o.error = "none"
                     THEN adjust_one_symptom(o.responses, group, "palpitations",
                                             target_rates["palpitations"])
                     ELSE {o} : o \in s1}
        s3 == UNION {IF o.error = "none"
                     THEN adjust_one_symptom(o.responses, group, "dizziness",
                                             target_rates["dizziness"])
                     ELSE {o} : o \in s2}
    IN  s3

glucose_of(response) == response.item[7][1]
set_glucose(response, v) == [response EXCEPT !.item[7] = <<v>>]

GlucoseClampMinTenths == 700
GlucoseClampMaxTenths == 1800
InterventionReductionPercent == 10

\* adjust_intervention_effect: target_glucose = baseline + 10% of the luteal
\* increase, in hundredths of mg/dL (118.81 -> 11881)
adjust_intervention_effect(responses, luteal_intervention) ==
    LET n == Cardinality(luteal_intervention)
        values == [i \in luteal_intervention |-> glucose_of(responses[i])]
        sum == SumOver(values, luteal_intervention)
        target100 == 10 * GlucoseFollicularMeanTenths
                     + (LutealGlucoseIncreaseTenths * InterventionReductionPercent) \div 10
        \* shift = target - mean = (target100 * n - 10 * sum) / (10 * n), in tenths
        num == target100 * n - 10 * sum
        den == 10 * n
        \* round(max(70, min(180, current + shift)), 1), in tenths
        new_value(current) ==
            LET x == current * den + num
            IN  IF x <= GlucoseClampMinTenths * den THEN GlucoseClampMinTenths
                ELSE IF x >= GlucoseClampMaxTenths * den THEN GlucoseClampMaxTenths
                ELSE RoundDiv(x, den)
    IN  IF n = 0 THEN {Outcome("none", responses)}
        ELSE IF Abs(num) < 5 * den THEN {Outcome("none", responses)}
        ELSE {Outcome("none",
                [i \in DOMAIN responses |->
                   IF i \in luteal_intervention
                   THEN set_glucose(responses[i], new_value(values[i]))
                   ELSE responses[i]])}

\* a call of retrofit_cohort made after the calls p.steps: its outcomes, with
\* the call added to the steps (a raising call is the last step)
Call(p, name, outcomes) ==
    {[error |-> o.error, responses |-> o.responses, steps |-> Append(p.steps, name)] :
       o \in outcomes}

\* retrofit_cohort(output_dir): the set of [error, steps, written, responses,
\* dir] it can end with; responses is the in-memory list at that point.
\* The groups (responses, follicular, luteal, luteal_intervention) are fixed
\* from the loaded records before any edit.  Nothing is written unless every
\* adjust call returns.
retrofit_cohort(d) ==
  UNION {UNION {UNION {UNION {
    LET target_fol_awakenings == AwakeningsFollicularMeanTenths
        target_lut_awakenings == AwakeningsFollicularMeanTenths
                                 + LutealAwakeningsIncreaseTenths
        s0 == {[error |-> "none", responses |-> responses,
                steps |-> <<"load_cohort", "extract_stats">>]}
        s1 == UNION {IF p.error # "none" THEN {p}
                     ELSE Call(p, "adjust_awakenings",
                               adjust_awakenings(p.responses, follicular,
                                                 target_fol_awakenings)) : p \in s0}
        s2 == UNION {IF p.error # "none" THEN {p}
                     ELSE Call(p, "adjust_awakenings",
                               adjust_awakenings(p.responses, luteal,
                                                 target_lut_awakenings)) : p \in s1}
        s3 == UNION {IF p.error # "none" THEN {p}
                     ELSE Call(p, "adjust_symptom_rates",
                               adjust_symptom_rates(p.responses, follicular,
                                                    fol_targets)) : p \in s2}
        s4 == UNION {IF p.error # "none" THEN {p}
                     ELSE Call(p, "adjust_symptom_rates",
                               adjust_symptom_rates(p.responses, luteal,
                                                    lut_targets)) : p \in s3}
        s5 == UNION {IF p.error # "none" THEN {p}
                     ELSE Call(p, "adjust_intervention_effect",
                               adjust_intervention_effect(p.responses,
                                                          luteal_intervention)) : p \in s4}
    IN  {IF o.error # "none"
         THEN [error |-> o.error, steps |-> o.steps, written |-> 0,
               responses |-> o.responses, dir |-> d]
         ELSE [error |-> "none", steps |-> Append(o.steps, "save_cohort"),
               written |-> Len(o.responses),
               responses |-> o.responses, dir |-> save_cohort(o.responses, d)]
         : o \in s5}
      : luteal_intervention \in {{i \in luteal : is_intervention(responses[i])}}}
      : luteal \in {{i \in DOMAIN responses : extract_phase(responses[i]) = Luteal}}}
      : follicular \in {{i \in DOMAIN responses : extract_phase(responses[i]) = Follicular}}}
      : responses \in {load_cohort(d)}}

-----------------------------------------------------------------------------
(* validators/cohort_validator.py: CohortValidator.                         *)
(* self.responses is the bag of loaded documents: the function d from file  *)
(* stem to document.  An observed value is a rational <<num, den>>; den = 0 *)
(* stands for nan (np.mean of an empty list).                               *)

\* CohortValidator._check_metric: expected en/ed >= 0, tolerance tn/td
check_metric(metric, en, ed, observed, tn, td) ==
    LET on == observed[1]
        od == observed[2]
        passed == IF od = 0 THEN FALSE
                  ELSE IF en = 0 THEN Abs(on) * td <= tn * od
                  ELSE Abs(on * ed - en * od) * td <= tn * en * od
    IN  [metric |-> metric, passed |-> passed]

\* the stems whose document answers link_id
answered(d, link_id) == {n \in DOMAIN d : has_answer(d[n], link_id)}

\* np.mean of the first answers of link_id over the stems G, scaled by k
mean_of(d, G, link_id, k) ==
    LET H == G \cap answered(d, link_id)
    IN  <<k * SumOver([n \in H |-> d[n].item[link_id][1]], H), Cardinality(H)>>

in_phase(d, phase) == {n \in DOMAIN d : calculate_phase(d[n]) = phase}

ExpectedTotalDefault == 187
ExpectedInterventionDefault == 64

validate_cohort_size(d) ==
    <<check_metric("Total Responses", ExpectedTotalDefault, 1,
                   <<Cardinality(DOMAIN d), 1>>, 5, 100)>>

\* min / max of a non-empty set of integers
SetMin(S) == CHOOSE x \in S : \A y \in S : x <= y
SetMax(S) == CHOOSE x \in S : \A y \in S : x >= y

validate_age_distribution(d) ==
    LET A == answered(d, 1)
        ages == {d[n].item[1][1] : n \in A}
    IN  << check_metric("Minimum Age", AgeMin, 1, <<SetMin(ages), 1>>, 1, 1),
           check_metric("Maximum Age", AgeMax, 1, <<SetMax(ages), 1>>, 1, 1),
           check_metric("Mean Age", AgeMeanTenths, 10, mean_of(d, A, 1, 1), 10, 100) >>

validate_insulin_delivery_ratio(d) ==
    LET A == answered(d, 3)
        pump_count == Cardinality({n \in A : d[n].item[3][1] = "Insulin Pump"})
    IN  <<check_metric("Pump Usage Ratio", PumpRatioPercent, 100,
                       <<pump_count, Cardinality(A)>>, 10, 100)>>

VeryRegularPercent == 55
SomewhatRegularPercent == 30
IrregularPercent == 15

validate_cycle_regularity_distribution(d) ==
    LET A == answered(d, 5)
        count(needle) == Cardinality({n \in A : InText(needle, d[n].item[5][1])})
        total == Cardinality(A)
    IN  << check_metric("Very Regular Ratio", VeryRegularPercent, 100,
                        <<count("Very regular"), total>>, 15, 100),
           check_metric("Somewhat Regular Ratio", SomewhatRegularPercent, 100,
                        <<count("Somewhat regular"), total>>, 15, 100),
           check_metric("Irregular Ratio", IrregularPercent, 100,
                        <<count("Irregular"), total>>, 15, 100) >>

validate_phase_distribution(d) ==
    LET with_phase == {n \in DOMAIN d : calculate_phase(d[n]) # None}
    IN  <<check_metric("Follicular Phase Ratio", 50, 100,
                       <<Cardinality(in_phase(d, Follicular)), Cardinality(with_phase)>>,
                       10, 100)>>

validate_follicular_glucose(d) ==
    <<check_metric("Follicular Mean Glucose (mg/dL)", GlucoseFollicularMeanTenths, 1,
                   mean_of(d, in_phase(d, Follicular), 7, 1), 10, 100)>>

validate_luteal_glucose(d) ==
    <<check_metric("Luteal Mean Glucose (mg/dL)",
                   GlucoseFollicularMeanTenths + LutealGlucoseIncreaseTenths, 1,
                   mean_of(d, in_phase(d, Luteal), 7, 1), 10, 100)>>

validate_follicular_basal_insulin(d) ==
    <<check_metric("Follicular Mean Basal Insulin (units)", BasalInsulinMeanTenths, 1,
                   mean_of(d, in_phase(d, Follicular), 6, 1), 10, 100)>>

validate_luteal_basal_insulin(d) ==
    <<check_metric("Luteal Mean Basal Insulin (units)",
                   BasalInsulinMeanTenths * (100 + LutealInsulinIncreasePercent), 100,
                   mean_of(d, in_phase(d, Luteal), 6, 1), 10, 100)>>

validate_follicular_sleep_awakenings(d) ==
    <<check_metric("Follicular Mean Awakenings", AwakeningsFollicularMeanTenths, 10,
                   mean_of(d, in_phase(d, Follicular), 8, 1), 15, 100)>>

validate_luteal_sleep_awakenings(d) ==
    <<check_metric("Luteal Mean Awakenings",
                   AwakeningsFollicularMeanTenths + LutealAwakeningsIncreaseTenths, 10,
                   mean_of(d, in_phase(d, Luteal), 8, 1), 15, 100)>>

\* needle in str(self._extract_answer(r, "9")): only the FIRST symptom answer
\* is looked at; str(None) holds no symptom name
validator_has_symptom(response, needle) ==
    has_answer(response, 9) /\ InText(needle, extract_answer(response, 9))

\* the three rate checks of a phase; tolerances in percent
symptom_checks(d, phase, label, targets, tol_sweats, tol_palp, tol_dizzy) ==
    LET G == in_phase(d, phase)
        total == Cardinality(G)
        count(needle) == Cardinality({n \in G : validator_has_symptom(d[n], needle)})
    IN  << check_metric(label \o " Night Sweats Rate", targets["night-sweats"], 100,
                        <<count("Night sweats"), total>>, tol_sweats, 100),
           check_metric(label \o " Palpitations Rate", targets["palpitations"], 100,
                        <<count("Palpitations"), total>>, tol_palp, 100),
           check_metric(label \o " Dizziness Rate", targets["dizziness"], 100,
                        <<count("Dizziness"), total>>, tol_dizzy, 100) >>

validate_follicular_symptoms(d) ==
    symptom_checks(d, Follicular, "Follicular", fol_targets, 25, 30, 30)

validate_luteal_symptoms(d) ==
    symptom_checks(d, Luteal, "Luteal", lut_targets, 20, 25, 25)

validate_intervention_subgroup_size(d, expected_count) ==
    LET intervention_count ==
            Cardinality({n \in DOMAIN d : validator_is_intervention(d[n])})
    IN  <<check_metric("Intervention Subgroup Size", expected_count, 1,
                       <<intervention_count, 1>>, 10, 100)>>

\* the insufficient-data result appended like every other result
improvement_always_appended(d) ==
    <<[metric |-> "Intervention Glucose Improvement", passed |-> FALSE]>>

\* validate_intervention_glucose_improvement: what it appends to self.results.
\* With no luteal intervention document, or no luteal non-intervention one,
\* it returns a failed result without appending it.
validate_intervention_glucose_improvement(d) ==
    LET lut == in_phase(d, Luteal) \cap answered(d, 7)
        intervention_luteal == {n \in lut : validator_is_intervention(d[n])}
        non_intervention_luteal == lut \ intervention_luteal
        m == mean_of(d, intervention_luteal, 7, 1)
        \* intervention_mean - follicular_mean, in tenths
        increase == <<m[1] - GlucoseFollicularMeanTenths * m[2], m[2]>>
    IN  IF intervention_luteal = {} \/ non_intervention_luteal = {} THEN <<>>
        ELSE <<check_metric("Intervention Luteal Glucose Increase (mg/dL)",
                            LutealGlucoseIncreaseTenths * InterventionReductionPercent, 100,
                            increase, 30, 100)>>

\* CohortValidator.validate_all: [error, steps, results, passed, total].
\* It raises ValueError on an empty load, and ZeroDivisionError where a check
\* divides by the size of an empty group.
validate_all(d, expected_intervention_count) ==
    LET count == Cardinality(DOMAIN d)
        failed(error, steps) ==
            [error |-> error, steps |-> steps, results |-> <<>>, passed |-> 0, total |-> 0]
        results ==
            validate_cohort_size(d) \o validate_age_distribution(d)
            \o validate_insulin_delivery_ratio(d)
            \o validate_cycle_regularity_distribution(d)
            \o validate_phase_distribution(d)
            \o validate_follicular_glucose(d) \o validate_luteal_glucose(d)
            \o validate_follicular_basal_insulin(d) \o validate_luteal_basal_insulin(d)
            \o validate_follicular_sleep_awakenings(d)
            \o validate_luteal_sleep_awakenings(d)
            \o validate_follicular_symptoms(d) \o validate_luteal_symptoms(d)
            \o validate_intervention_subgroup_size(d, expected_intervention_count)
            \o validate_intervention_glucose_improvement(d)
    IN  IF count = 0 THEN failed(NoResponsesFound, <<"load_responses">>)
        ELSE IF answered(d, 1) = {}
        THEN failed(EmptySequence, <<"load_responses", "validate_cohort_size",
                                    "validate_age_distribution">>)
        ELSE IF answered(d, 3) = {} \/ answered(d, 5) = {}
                \/ {n \in DOMAIN d : calculate_phase(d[n]) # None} = {}
                \/ in_phase(d, Follicular) = {} \/ in_phase(d, Luteal) = {}
        THEN failed("ZeroDivisionError", <<"load_responses", "validate">>)
        ELSE [error |-> "none", steps |-> <<"load_responses", "validate">>,
              results |-> results,
              passed |-> Cardinality({i \in DOMAIN results : results[i].passed}),
              total |-> Len(results)]

-----------------------------------------------------------------------------
(* main.py: generate_responses (longitudinal), as the CLI runs it.          *)

\* the draws of a pipeline run
Offsets == {-14}
PipelineDraws ==
    [age |-> {30}, years |-> {5}, delivery |-> {"Insulin Pump"},
     regularity |-> {"Very regular (predictable)"},
     days_ago |-> {3, 17}, basal_baseline |-> {140}, basal |-> {140},
     glucose |-> {1150, 1300}, awakenings |-> {0}, symptoms |-> {<<>>}]

CohortSize == 50         \* observations of a full-size run
MaxShuffled == 4         \* schedules up to this length are followed in every order

\* the draws followed at schedule index i of a full-size run: one glucose
\* value at or above 122 mg/dL (index 0), the others below; one awakening
\* everywhere; night sweats, palpitations and dizziness on a few records
CohortDraws(i) ==
    [PipelineDraws EXCEPT
       !.glucose = IF i = 0 THEN {1300} ELSE {1150},
       !.awakenings = {1},
       !.symptoms = IF i \in 1..4 THEN {<<"Night sweats">>}
                    ELSE IF i \in 5..6 THEN {<<"Palpitations">>}
                    ELSE IF i = CohortSize - 1 THEN {<<"Night sweats", "Dizziness">>}
                    ELSE {<<>>}]

\* the part of the support of the draws followed at index i of a run of
\* total_observations observations
DrawsAt(total_observations, i) ==
    IF total_observations >= CohortSize THEN CohortDraws(i) ELSE PipelineDraws

\* the draws that reproduce a recorded observation: what the generator of
\* the same seed returns at the same position of its stream
Replay(observation, cache) ==
    [age |-> {observation.age}, years |-> {observation.years_since_diagnosis},
     delivery |-> {observation.insulin_delivery_method},
     regularity |-> {observation.cycle_regularity},
     days_ago |-> {observation.observation_date - observation.lmp},
     basal_baseline |-> {cache[observation.patient_id]["basal_baseline"]},
     basal |-> {observation.basal_insulin},
     glucose |-> {observation.nighttime_glucose},
     awakenings |-> {observation.sleep_awakenings},
     symptoms |-> {observation.symptoms}]

NoLast ==
    [op |-> "none", error |-> "none", steps |-> <<>>, written |-> 0,
     before |-> <<>>, names |-> <<>>, responses |-> <<>>,
     results |-> <<>>, passed |-> 0, total |-> 0, after_retrofit |-> FALSE,
     observation |-> <<>>, phase |-> "none", corrections |-> EmptyDict]

\* the generator of the first run has drawn nothing yet
FreshRng == [run |-> 1, intervention |-> {}, schedule |-> <<>>, observations |-> <<>>,
             baseline |-> EmptyDict, retrofit |-> <<>>, error |-> "none"]

\* generate_observation_schedule before the clock is read: the shuffled list
\* of [patient_id, offset, target_phase]
Schedules(num_patients, observations_per_patient) ==
    LET N == num_patients * observations_per_patient
        \* position k (0-based) of the unshuffled list
        patient(k) == (k \div observations_per_patient) + 1
        obs_num(k) == k % observations_per_patient
        phase(k) == IF obs_num(k) % 2 = 0 THEN Follicular ELSE Luteal
        \* rng.shuffle: every order of a short schedule; of a longer one
        \* the order in which it was built
        perms == IF N <= MaxShuffled
                 THEN {q \in [1..N -> 0..(N - 1)] :
                         \A i, j \in 1..N : i # j => q[i] # q[j]}
                 ELSE {[i \in 1..N |-> i - 1]}
    IN  {[i \in 1..N |-> [patient_id |-> patient(q[i]),
                          offset |-> off[q[i] + 1],
                          target_phase |-> phase(q[i])]] :
         q \in perms, off \in [1..N -> Offsets]}

\* generate_observation_schedule: base_date = datetime.now()
generate_observation_schedule(relative, base_date) ==
    [i \in DOMAIN relative |->
       [patient_id |-> relative[i].patient_id,
        obs_date |-> timedelta_add(base_date, relative[i].offset),
        target_phase |-> relative[i].target_phase]]

\* clean_output_directory, when the directory exists
clean_output_directory(d) == <<>>

checkpoint_of(total_observations) == IntTrunc(6 * total_observations, 10)

\* file stem of response_id = f"{patient_id}-obs-{idx+1:04d}"
response_id_of(patient_id, i) == <<patient_id, i + 1>>

\* what of a directory does not come from the wall clock: every document
\* without its `authored` stamp and its LMP date
Strip(d) ==
    [n \in DOMAIN d |-> [d[n] EXCEPT !.authored = DateTime(0, 0), !.item[4] = <<>>]]

PipelineArgs ==
    {[num_patients |-> P, observations_per_patient |-> K, intervention_count |-> I,
      one_per_patient |-> FALSE] :
       <<P, K, I>> \in {t \in (1..MaxObservations) \X (1..MaxObservations)
                               \X (0..MaxObservations) :
                          t[1] * t[2] <= MaxObservations /\ t[3] <= t[1]}}

NoArgs == [num_patients |-> 0, observations_per_patient |-> 0, intervention_count |-> 0,
           one_per_patient |-> FALSE]
EmptyPool == [p \in Phases |-> 0]
TimesOfDay == {0, 1}

Init ==
    /\ pc = "start"
    /\ clock = DateTime(0, 0)
    /\ args \in PipelineArgs
    /\ intervention_patients = {}
    /\ schedule = <<>>
    /\ idx = 0
    /\ tracker = CohortTracker(0, 0)
    /\ baseline = EmptyDict
    /\ generated = <<>>
    /\ dir_exists \in BOOLEAN
    /\ dir = <<>>
    /\ last = NoLast
    /\ first_output = <<>>
    /\ phase_pool = EmptyPool
    /\ rng = FreshRng

\* generate_responses up to the loop of generate_responses_longitudinal:
\* clean, mkdir, default_rng(seed), intervention draw, schedule, tracker
Start ==
    /\ pc = "start"
    /\ ~args.one_per_patient
    /\ LET P == args.num_patients
           K == args.observations_per_patient
           I == args.intervention_count
       IN  \E ip \in (IF rng.run = 1 THEN KSubsets(1..P, I) ELSE {rng.intervention}),
              relative \in (IF rng.run = 1 THEN Schedules(P, K) ELSE {rng.schedule}) :
             /\ intervention_patients' = ip
             /\ schedule' = generate_observation_schedule(relative, clock)
             /\ tracker' = CohortTracker(P * K, I * K)
             /\ rng' = [rng EXCEPT !.intervention = ip, !.schedule = relative]
    /\ dir' = clean_output_directory(dir)
    /\ dir_exists' = TRUE
    /\ idx' = 0
    /\ baseline' = EmptyDict
    /\ generated' = <<>>
    /\ pc' = "generate"
    /\ UNCHANGED <<clock, args, last, first_output, phase_pool>>

\* one iteration of the loop of generate_responses_longitudinal
GenerateStep ==
    /\ pc = "generate"
    /\ ~args.one_per_patient
    /\ idx < Len(schedule)
    /\ LET entry == schedule[idx + 1]
           patient_id == entry.patient_id
           in_intervention == patient_id \in intervention_patients
           is_corrective == idx >= checkpoint_of(Len(schedule))
           phases == IF is_corrective THEN get_target_phase_for_balance(tracker)
                     ELSE {entry.target_phase}
           correction_factors == IF is_corrective THEN get_correction_factors(tracker)
                                 ELSE EmptyDict
           first == rng.run = 1
           D == IF first THEN DrawsAt(Len(schedule), idx)
                ELSE Replay(rng.observations[idx + 1], rng.baseline)
       IN  \E target_phase \in
                 (IF first THEN phases ELSE phases \cap {rng.observations[idx + 1].phase}) :
             \E o \in generate_observation(baseline, patient_id, entry.obs_date,
                                           target_phase, in_intervention,
                                           correction_factors, D) :
               /\ o.error = "none"
               /\ tracker' = record_observation(tracker, o.returned[1])
               /\ generated' = Append(generated,
                                      [response_id |-> response_id_of(patient_id, idx),
                                       observation |-> o.returned[1]])
               /\ baseline' = o.cache
               /\ rng' = IF first
                         THEN [rng EXCEPT !.observations = Append(@, o.returned[1]),
                                          !.baseline = o.cache]
                         ELSE rng
               /\ last' = [NoLast EXCEPT !.op = "generate_observation",
                                         !.before = tracker,
                                         !.phase = target_phase,
                                         !.corrections = correction_factors,
                                         !.observation = o.returned]
    /\ idx' = idx + 1
    /\ pc' = IF idx + 1 = Len(schedule) THEN "save" ELSE "generate"
    /\ UNCHANGED <<clock, args, intervention_patients, schedule, dir_exists, dir,
                   first_output, phase_pool>>

\* the save loop: build_response and save_response for every buffered pair,
\* in list order (a file keeps the last response written to it)
save_all(d, pairs, now) ==
    LET stems == {pairs[i].response_id : i \in DOMAIN pairs}
        last_written(stem) ==
            CHOOSE i \in DOMAIN pairs :
              /\ pairs[i].response_id = stem
              /\ \A j \in DOMAIN pairs : pairs[j].response_id = stem => j <= i
    IN  [n \in (DOMAIN d) \cup stems |->
           IF n \in stems
           THEN save_response(d, build_response(pairs[last_written(n)].observation, n, now),
                              n)[n]
           ELSE d[n]]

SaveResponses ==
    /\ pc = "save"
    /\ dir' = save_all(dir, generated, clock)
    /\ pc' = "retrofit"
    /\ UNCHANGED <<clock, args, intervention_patients, schedule, idx, tracker,
                   baseline, generated, dir_exists, last, first_output, phase_pool, rng>>

\* retrofit_cohort: the last step of generate_responses_longitudinal
\* (pc = "retrofit"), or the entry point run on a directory (pc = "done").
\* A generator of the seed of the first run repeats the selections it made
\* there.
RetrofitCohort ==
    /\ pc \in {"retrofit", "done"}
    /\ LET replayed == pc = "retrofit" /\ rng.run = 2
           outcomes == {o \in retrofit_cohort(dir) :
                          replayed => /\ o.error = rng.error
                                      /\ Strip(o.dir) = rng.retrofit}
       IN  \E o \in outcomes :
             /\ dir' = o.dir
             /\ last' = [NoLast EXCEPT
                           !.op = "retrofit_cohort",
                           !.error = o.error,
                           !.steps = o.steps,
                           !.written = o.written,
                           !.before = dir,
                           !.names = SortStems(DOMAIN dir),
                           !.responses = o.responses,
                           !.after_retrofit = (last.op = "retrofit_cohort"
                                               /\ last.error = "none")]
             /\ rng' = IF pc = "retrofit" /\ rng.run = 1
                       THEN [rng EXCEPT !.retrofit = Strip(o.dir), !.error = o.error]
                       ELSE rng
    /\ pc' = IF pc = "done" THEN "end" ELSE "done"
    /\ UNCHANGED <<clock, args, intervention_patients, schedule, idx, tracker,
                   baseline, generated, dir_exists, first_output, phase_pool>>

ExpectedInterventionCounts == {0, ExpectedInterventionDefault}

\* CohortValidator.validate_all on the directory
ValidateAll ==
    /\ pc \in {"done", "end"}
    /\ last.op # "validate_all"
    /\ \E expected_intervention_count \in ExpectedInterventionCounts :
         LET v == validate_all(dir, expected_intervention_count)
         IN  last' = [NoLast EXCEPT
                        !.op = "validate_all",
                        !.error = v.error,
                        !.steps = v.steps,
                        !.before = dir,
                        !.results = v.results,
                        !.passed = v.passed,
                        !.total = v.total]
    /\ UNCHANGED <<pc, clock, args, intervention_patients, schedule, idx, tracker,
                   baseline, generated, dir_exists, dir, first_output, phase_pool, rng>>

\* the clock readings after now
Later(now) ==
    {DateTime(d, t) : d \in 0..MaxClockDays, t \in TimesOfDay} \
    {c \in {DateTime(d, t) : d \in 0..MaxClockDays, t \in TimesOfDay} :
       c.day < now.day \/ (c.day = now.day /\ c.tod <= now.tod)}

\* the CLI is started again, later, with the same arguments and seed
Rerun ==
    /\ pc = "done"
    /\ rng.run = 1
    /\ first_output' = dir
    /\ clock' \in Later(clock)
    /\ rng' = [rng EXCEPT !.run = 2]
    /\ pc' = "start"
    /\ last' = NoLast
    /\ UNCHANGED <<args, intervention_patients, schedule, idx, tracker, baseline,
                   generated, dir_exists, dir, phase_pool>>

Next ==
    \/ Start
    \/ GenerateStep
    \/ SaveResponses
    \/ RetrofitCohort
    \/ ValidateAll
    \/ Rerun

Spec == Init /\ [][Next]_vars

-----------------------------------------------------------------------------
(* A full-size run of generate_responses (longitudinal, one observation per *)
(* patient), its retrofit pass, and validate_all on what it leaves.         *)

CohortArgs ==
    {[num_patients |-> CohortSize, observations_per_patient |-> 1,
      intervention_count |-> I, one_per_patient |-> FALSE] : I \in {0, 1}}

InitCohort ==
    /\ pc = "start"
    /\ clock = DateTime(0, 0)
    /\ args \in CohortArgs
    /\ intervention_patients = {}
    /\ schedule = <<>>
    /\ idx = 0
    /\ tracker = CohortTracker(0, 0)
    /\ baseline = EmptyDict
    /\ generated = <<>>
    /\ dir_exists \in BOOLEAN
    /\ dir = <<>>
    /\ last = NoLast
    /\ first_output = <<>>
    /\ phase_pool = EmptyPool
    /\ rng = FreshRng

NextCohort ==
    \/ Start
    \/ GenerateStep
    \/ SaveResponses
    \/ RetrofitCohort
    \/ ValidateAll

SpecCohort == InitCohort /\ [][NextCohort]_vars

-----------------------------------------------------------------------------
(* main.py: the generation loops of both modes, up to the save loop.        *)
(* last holds what the latest iteration passed to generate_observation      *)
(* (phase, corrections) and the tracker as it was when they were computed.  *)

MaxLoopObservations == 3 \* loop runs generate at most this many observations

LoopArgs ==
    {[num_patients |-> P, observations_per_patient |-> K, intervention_count |-> I,
      one_per_patient |-> one] :
       <<P, K, I, one>> \in
         {t \in (1..MaxLoopObservations) \X (1..MaxLoopObservations)
                 \X (0..MaxLoopObservations) \X BOOLEAN :
            /\ t[3] <= t[1]
            /\ IF t[4] THEN t[2] = 1 ELSE t[1] * t[2] <= MaxLoopObservations}}

\* rng.integers(-90, 0): the first and the last value of the range
OnePerPatientOffsets == {-90, -1}

InitLoop ==
    /\ pc = "start"
    /\ clock = DateTime(0, 0)
    /\ args \in LoopArgs
    /\ intervention_patients = {}
    /\ schedule = <<>>
    /\ idx = 0
    /\ tracker = CohortTracker(0, 0)
    /\ baseline = EmptyDict
    /\ generated = <<>>
    /\ dir_exists \in BOOLEAN
    /\ dir = <<>>
    /\ last = NoLast
    /\ first_output = <<>>
    /\ phase_pool = EmptyPool
    /\ rng = FreshRng

\* generate_responses up to the loop of generate_responses_one_per_patient:
\* clean, mkdir, default_rng(seed), tracker, intervention draw; no schedule
\* is built
StartOnePerPatient ==
    /\ pc = "start"
    /\ args.one_per_patient
    /\ \E ip \in KSubsets(1..args.num_patients, args.intervention_count) :
         /\ intervention_patients' = ip
         /\ rng' = [rng EXCEPT !.intervention = ip]
    /\ tracker' = CohortTracker(args.num_patients, args.intervention_count)
    /\ schedule' = <<>>
    /\ dir' = clean_output_directory(dir)
    /\ dir_exists' = TRUE
    /\ idx' = 0
    /\ baseline' = EmptyDict
    /\ generated' = <<>>
    /\ pc' = "generate"
    /\ UNCHANGED <<clock, args, last, first_output, phase_pool>>

\* one iteration of the loop of generate_responses_one_per_patient; the
\* file of a patient is "response-<patient_id>.json", stem <<patient>>
GenerateStepOnePerPatient ==
    /\ pc = "generate"
    /\ args.one_per_patient
    /\ idx < args.num_patients
    /\ LET patient_num == idx + 1
           patient_id == patient_num
           in_intervention == patient_id \in intervention_patients
           checkpoint == checkpoint_of(args.num_patients)
           is_corrective == patient_num > checkpoint
           phases == IF is_corrective THEN get_target_phase_for_balance(tracker)
                     ELSE {Follicular, Luteal}
           correction_factors == IF is_corrective THEN get_correction_factors(tracker)
                                 ELSE EmptyDict
       IN  \E days_offset \in OnePerPatientOffsets, target_phase \in phases :
             \E o \in generate_observation(baseline, patient_id,
                                           timedelta_add(clock, days_offset),
                                           target_phase, in_intervention,
                                           correction_factors, PipelineDraws) :
               /\ o.error = "none"
               /\ tracker' = record_observation(tracker, o.returned[1])
               /\ generated' = Append(generated,
                                      [response_id |-> <<patient_id>>,
                                       observation |-> o.returned[1]])
               /\ baseline' = o.cache
               /\ rng' = [rng EXCEPT !.observations = Append(@, o.returned[1]),
                                     !.baseline = o.cache]
               /\ last' = [NoLast EXCEPT !.op = "generate_observation",
                                         !.before = tracker,
                                         !.phase = target_phase,
                                         !.corrections = correction_factors,
                                         !.observation = o.returned]
    /\ idx' = idx + 1
    /\ pc' = IF idx + 1 = args.num_patients THEN "save" ELSE "generate"
    /\ UNCHANGED <<clock, args, intervention_patients, schedule, dir_exists, dir,
                   first_output, phase_pool>>

NextLoop ==
    \/ Start
    \/ GenerateStep
    \/ StartOnePerPatient
    \/ GenerateStepOnePerPatient
    \/ SaveResponses

SpecLoop == InitLoop /\ [][NextLoop]_vars

-----------------------------------------------------------------------------
(* main.py: a whole run of either mode, the save loop taken one document    *)
(* at a time, followed by the retrofit pass.                                *)

MaxRunObservations == 2  \* whole runs generate at most this many observations

RunArgs ==
    {a \in [num_patients : 1..MaxRunObservations,
            observations_per_patient : 1..MaxRunObservations,
            intervention_count : 0..1, one_per_patient : BOOLEAN] :
       /\ a.intervention_count <= a.num_patients
       /\ IF a.one_per_patient THEN a.observations_per_patient = 1
          ELSE a.num_patients * a.observations_per_patient <= MaxRunObservations}

InitRun ==
    /\ pc = "start"
    /\ clock = DateTime(0, 0)
    /\ args \in RunArgs
    /\ intervention_patients = {}
    /\ schedule = <<>>
    /\ idx = 0
    /\ tracker = CohortTracker(0, 0)
    /\ baseline = EmptyDict
    /\ generated = <<>>
    /\ dir_exists \in BOOLEAN
    /\ dir = <<>>
    /\ last = NoLast
    /\ first_output = <<>>
    /\ phase_pool = EmptyPool
    /\ rng = FreshRng

\* a pass of the save loop in which documents are written while the
\* generation loop is still running
SaveStepInsideLoop ==
    /\ pc = "generate"
    /\ Cardinality(DOMAIN dir) < Len(generated)
    /\ LET pair == generated[Cardinality(DOMAIN dir) + 1]
       IN  dir' = save_response(dir, build_response(pair.observation, pair.response_id,
                                                    clock),
                                pair.response_id)
    /\ UNCHANGED <<pc, clock, args, intervention_patients, schedule, idx, tracker,
                   baseline, generated, dir_exists, last, first_output, phase_pool, rng>>

\* one iteration of the save loop (either mode): the directory was cleaned
\* at the start of the run, so the documents written so far are its files
SaveStep ==
    /\ pc = "save"
    /\ Cardinality(DOMAIN dir) < Len(generated)
    /\ LET pair == generated[Cardinality(DOMAIN dir) + 1]
       IN  dir' = save_response(dir, build_response(pair.observation, pair.response_id,
                                                    clock),
                                pair.response_id)
    /\ pc' = IF Cardinality(DOMAIN dir) + 1 = Len(generated) THEN "retrofit" ELSE "save"
    /\ UNCHANGED <<clock, args, intervention_patients, schedule, idx, tracker,
                   baseline, generated, dir_exists, last, first_output, phase_pool, rng>>

NextRun ==
    \/ Start
    \/ GenerateStep
    \/ StartOnePerPatient
    \/ GenerateStepOnePerPatient
    \/ SaveStep
    \/ RetrofitCohort

\* after the generation loop the save loop and the call of retrofit_cohort
\* follow in the same function: each is taken when it is the next statement
SpecRun == InitRun /\ [][NextRun]_vars /\ WF_vars(SaveStep) /\ WF_vars(RetrofitCohort)

-----------------------------------------------------------------------------
(* retrofit_cohort and validate_all run on a directory of documents that    *)
(* was not produced in this session.                                        *)

\* the documents of such a directory: what the serializer writes for a
\* profile; the documents with a luteal glucose value hold any of the free
\* texts in linkId 10
DocProfiles ==
    {[age |-> 30, years_since_diagnosis |-> 5,
      insulin_delivery_method |-> "Insulin Pump",
      cycle_regularity |-> "Very regular (predictable)",
      lmp |-> l, basal_insulin |-> 140, nighttime_glucose |-> g,
      sleep_awakenings |-> 0, symptoms |-> <<>>] :
     l \in {-3, -17}, g \in {1150, 1300}}

DocUniverse ==
    {[build_response(profile, <<>>, DateTime(0, 0)) EXCEPT !.item[10] = <<text>>] :
       <<profile, text>> \in
         {t \in DocProfiles \X SubjectiveTexts :
            t[2] = PlaceholderText \/ t[1].nighttime_glucose >= PhaseThresholdTenths}}

\* directories of n files "response-patient-000i-obs-000i.json"
DocDirs(max_docs) ==
    UNION {{[n \in DOMAIN d |-> [d[n] EXCEPT !.id = n]] :
              d \in [{<<i, i>> : i \in 1..k} -> DocUniverse]} : k \in 0..max_docs}

InitDocs ==
    /\ pc = "done"
    /\ clock = DateTime(0, 0)
    /\ args = NoArgs
    /\ intervention_patients = {}
    /\ schedule = <<>>
    /\ idx = 0
    /\ tracker = CohortTracker(0, 0)
    /\ baseline = EmptyDict
    /\ generated = <<>>
    /\ dir \in DocDirs(MaxDocs)
    /\ dir_exists \in (IF dir = <<>> THEN BOOLEAN ELSE {TRUE})
    /\ last = NoLast
    /\ first_output = <<>>
    /\ phase_pool = EmptyPool
    /\ rng = FreshRng

NextDocs ==
    \/ RetrofitCohort
    \/ ValidateAll

SpecDocs == InitDocs /\ [][NextDocs]_vars

-----------------------------------------------------------------------------
(* PatientGenerator.generate_observation called directly, its result handed *)
(* to CohortTracker.record_observation as the generation loop does.         *)

MaxSamples == 2          \* calls of generate_observation in a sampler run

SamplerDraws ==
    [age |-> {30, 31}, years |-> {5},
     delivery |-> {"Insulin Pump", "Multiple Daily Injections"},
     regularity |-> {"Irregular"},
     days_ago |-> {3, 17}, basal_baseline |-> {140}, basal |-> {140},
     glucose |-> {1300}, awakenings |-> {1}, symptoms |-> {<<>>, <<"Dizziness">>}]

\* phase labels a caller can pass
PhaseLabels == Phases \cup {"ovulation"}

\* correction maps a caller can pass: none, or the trait corrections
\* get_correction_factors emits
CorrectionMaps ==
    {EmptyDict,
     Merge(Entry(TRUE, "age_shift", Rat(7, 10)), Entry(TRUE, "prefer_pump", Rat(15, 10))),
     Entry(TRUE, "prefer_injection", Rat(15, 10))}

InitSampler ==
    /\ pc = "sampler"
    /\ clock = DateTime(0, 0)
    /\ args = NoArgs
    /\ intervention_patients = {}
    /\ schedule = <<>>
    /\ idx = 0
    /\ tracker = CohortTracker(MaxSamples, 0)
    /\ baseline = EmptyDict
    /\ generated = <<>>
    /\ dir_exists = FALSE
    /\ dir = <<>>
    /\ last = NoLast
    /\ first_output = <<>>
    /\ phase_pool = EmptyPool
    /\ rng = FreshRng

GenerateObservation ==
    /\ pc = "sampler"
    /\ idx < MaxSamples
    /\ \E patient_id \in 1..2, target_phase \in PhaseLabels, in_intervention \in BOOLEAN,
          correction_factors \in CorrectionMaps :
         \E o \in generate_observation(baseline, patient_id, clock, target_phase,
                                       in_intervention, correction_factors,
                                       SamplerDraws) :
           /\ baseline' = o.cache
           /\ tracker' = IF o.error = "none"
                         THEN record_observation(tracker, o.returned[1])
                         ELSE tracker
           /\ generated' = IF o.error = "none"
                           THEN Append(generated,
                                       [response_id |-> response_id_of(patient_id, idx),
                                        observation |-> o.returned[1]])
                           ELSE generated
           /\ last' = [NoLast EXCEPT !.op = "generate_observation",
                                     !.error = o.error,
                                     !.before = tracker,
                                     !.observation = o.returned,
                                     !.phase = target_phase,
                                     !.corrections = correction_factors]
    /\ idx' = idx + 1
    /\ UNCHANGED <<pc, clock, args, intervention_patients, schedule,
                   dir_exists, dir, first_output, phase_pool, rng>>

NextSampler == GenerateObservation

SpecSampler == InitSampler /\ [][NextSampler]_vars

-----------------------------------------------------------------------------
(* The phase of every observation of a longitudinal run.  The shuffle is    *)
(* resolved entry by entry: phase_pool counts the scheduled phases of the   *)
(* entries the free iterations have not consumed yet.  From the checkpoint  *)
(* on the scheduled phase of an entry is overwritten before it is read.     *)

BalanceArgs ==
    {[num_patients |-> P, observations_per_patient |-> K, intervention_count |-> 0,
      one_per_patient |-> FALSE] :
       P \in 1..MaxBalancePatients, K \in 1..MaxBalanceObs}

\* the scheduled phases of generate_observation_schedule: obs_num even is
\* follicular, odd is luteal
scheduled_phases(a) ==
    [p \in Phases |->
       IF p = Follicular
       THEN a.num_patients * ((a.observations_per_patient + 1) \div 2)
       ELSE a.num_patients * (a.observations_per_patient \div 2)]

\* an observation of the given phase; the other fields do not enter the
\* phase choice
BalanceObservation(phase) ==
    [patient_id |-> 1, observation_date |-> 0, phase |-> phase,
     in_intervention |-> FALSE, age |-> 30, years_since_diagnosis |-> 5,
     insulin_delivery_method |-> "Insulin Pump",
     cycle_regularity |-> "Irregular", lmp |-> 0, basal_insulin |-> 140,
     nighttime_glucose |-> 1180, sleep_awakenings |-> 1, symptoms |-> <<>>]

\* record_observation as far as the phase counters go
record_phase(t, phase) ==
    LET full == record_observation(t, BalanceObservation(phase))
    IN  [t EXCEPT !.stats.total_observations = full.stats.total_observations,
                  !.stats.follicular_count = full.stats.follicular_count,
                  !.stats.luteal_count = full.stats.luteal_count]

InitBalance ==
    /\ pc = "balance"
    /\ clock = DateTime(0, 0)
    /\ args \in BalanceArgs
    /\ intervention_patients = {}
    /\ schedule = <<>>
    /\ idx = 0
    /\ tracker = CohortTracker(args.num_patients * args.observations_per_patient, 0)
    /\ baseline = EmptyDict
    /\ generated = <<>>
    /\ dir_exists = FALSE
    /\ dir = <<>>
    /\ last = NoLast
    /\ first_output = <<>>
    /\ phase_pool = scheduled_phases(args)
    /\ rng = FreshRng

\* one iteration of the loop of generate_responses_longitudinal, phase only
BalanceStep ==
    /\ pc = "balance"
    /\ idx < tracker.target_total
    /\ LET is_corrective == idx >= checkpoint_of(tracker.target_total)
       IN  IF is_corrective
           THEN /\ \E target_phase \in get_target_phase_for_balance(tracker) :
                     tracker' = record_phase(tracker, target_phase)
                /\ UNCHANGED phase_pool
           ELSE \E scheduled \in {p \in Phases : phase_pool[p] > 0} :
                  /\ phase_pool' = [phase_pool EXCEPT ![scheduled] = @ - 1]
                  /\ tracker' = record_phase(tracker, scheduled)
    /\ idx' = idx + 1
    /\ UNCHANGED <<pc, clock, args, intervention_patients, schedule, baseline,
                   generated, dir_exists, dir, last, first_output, rng>>

NextBalance == BalanceStep

SpecBalance == InitBalance /\ [][NextBalance]_vars

-----------------------------------------------------------------------------
(* The three adjust operations of retrofit_cohort.py called on a record     *)
(* list, one call after the other on the same list, with the targets        *)
(* retrofit_cohort passes.  last.responses is the list as the calls left    *)
(* it, last.before the list the latest call was given, last.steps the       *)
(* calls made.                                                              *)

MaxRecords == 3          \* length of the record list handed to an adjust call
MaxCalls == 2            \* adjust calls made on one list

\* the records: documents as the serializer writes them
AdjustProfiles ==
    {[age |-> 30, years_since_diagnosis |-> 5,
      insulin_delivery_method |-> "Insulin Pump",
      cycle_regularity |-> "Very regular (predictable)",
      lmp |-> -17, basal_insulin |-> 140, nighttime_glucose |-> g,
      sleep_awakenings |-> a, symptoms |-> sy] :
     g \in {1188, 1300}, a \in {0, 3},
     sy \in {<<>>, <<"Night sweats">>, <<"Palpitations", "Weakness/Fatigue">>}}

RecordLists(max_records) ==
    UNION {[1..k -> {build_response(profile, <<>>, DateTime(0, 0)) :
                       profile \in AdjustProfiles}] : k \in 0..max_records}

\* the target retrofit_cohort passes for the follicular / the luteal group
awakenings_target(label) ==
    IF label = Follicular THEN AwakeningsFollicularMeanTenths
    ELSE AwakeningsFollicularMeanTenths + LutealAwakeningsIncreaseTenths

symptom_targets(label) == IF label = Follicular THEN fol_targets ELSE lut_targets

InitAdjust ==
    /\ pc = "adjust"
    /\ clock = DateTime(0, 0)
    /\ args = NoArgs
    /\ intervention_patients = {}
    /\ schedule = <<>>
    /\ idx = 0
    /\ tracker = CohortTracker(0, 0)
    /\ baseline = EmptyDict
    /\ generated = <<>>
    /\ dir_exists = FALSE
    /\ dir = <<>>
    /\ last \in {[NoLast EXCEPT !.responses = records] : records \in RecordLists(MaxRecords)}
    /\ first_output = <<>>
    /\ phase_pool = EmptyPool
    /\ rng = FreshRng

\* what a call that ended as outcome o leaves in `last`
adjust_call(name, label, o) ==
    [NoLast EXCEPT
       !.op = name,
       !.phase = label,
       !.error = o.error,
       !.steps = Append(last.steps, [name |-> name, label |-> label]),
       !.before = last.responses,
       !.responses = o.responses]

\* a call is made only after the calls before it returned
AdjustAwakenings ==
    /\ pc = "adjust"
    /\ Len(last.steps) < MaxCalls
    /\ last.error = "none"
    /\ \E label \in Phases :
         \E o \in adjust_awakenings(last.responses, DOMAIN last.responses,
                                    awakenings_target(label)) :
           last' = adjust_call("adjust_awakenings", label, o)
    /\ UNCHANGED <<pc, clock, args, intervention_patients, schedule, idx, tracker,
                   baseline, generated, dir_exists, dir, first_output, phase_pool, rng>>

AdjustSymptomRates ==
    /\ pc = "adjust"
    /\ Len(last.steps) < MaxCalls
    /\ last.error = "none"
    /\ \E label \in Phases :
         \E o \in adjust_symptom_rates(last.responses, DOMAIN last.responses,
                                       symptom_targets(label)) :
           last' = adjust_call("adjust_symptom_rates", label, o)
    /\ UNCHANGED <<pc, clock, args, intervention_patients, schedule, idx, tracker,
                   baseline, generated, dir_exists, dir, first_output, phase_pool, rng>>

AdjustInterventionEffect ==
    /\ pc = "adjust"
    /\ Len(last.steps) < MaxCalls
    /\ last.error = "none"
    /\ \E o \in adjust_intervention_effect(last.responses, DOMAIN last.responses) :
         last' = adjust_call("adjust_intervention_effect", Luteal, o)
    /\ UNCHANGED <<pc, clock, args, intervention_patients, schedule, idx, tracker,
                   baseline, generated, dir_exists, dir, first_output, phase_pool, rng>>

NextAdjust ==
    \/ AdjustAwakenings
    \/ AdjustSymptomRates
    \/ AdjustInterventionEffect

SpecAdjust == InitAdjust /\ [][NextAdjust]_vars

-----------------------------------------------------------------------------
(* The LMP samplers called on an observation date (the clock), and the      *)
(* phase classifier applied to what they return.  last.observation holds    *)
(* the LMP as the datetime calculate_phase_from_lmp is given: the date      *)
(* string of PatientGenerator.generate_lmp_for_phase parsed back, or the    *)
(* datetime of cycle_utils.generate_lmp_for_phase.                          *)

MaxDateDays == 2         \* observation dates are day 0..MaxDateDays

\* every offset rng.integers(0, 14) / rng.integers(14, 28) can give
LmpDraws == [SamplerDraws EXCEPT !.days_ago = 0..27]

InitLmp ==
    /\ pc = "lmp"
    /\ clock \in {DateTime(d, t) : d \in 0..MaxDateDays, t \in TimesOfDay}
    /\ args = NoArgs
    /\ intervention_patients = {}
    /\ schedule = <<>>
    /\ idx = 0
    /\ tracker = CohortTracker(0, 0)
    /\ baseline = EmptyDict
    /\ generated = <<>>
    /\ dir_exists = FALSE
    /\ dir = <<>>
    /\ last = NoLast
    /\ first_output = <<>>
    /\ phase_pool = EmptyPool
    /\ rng = FreshRng

GenerateLmpForPhase ==
    /\ pc = "lmp"
    /\ last.op = "none"
    /\ \E target_phase \in Phases :
         \E lmp \in generate_lmp_for_phase(clock, target_phase, LmpDraws) :
           last' = [NoLast EXCEPT !.op = "generate_lmp_for_phase",
                                  !.phase = target_phase,
                                  !.observation = <<fromisoformat_date(lmp)>>]
    /\ UNCHANGED <<pc, clock, args, intervention_patients, schedule, idx, tracker,
                   baseline, generated, dir_exists, dir, first_output, phase_pool, rng>>

CycleUtilsGenerateLmpForPhase ==
    /\ pc = "lmp"
    /\ last.op = "none"
    /\ \E target_phase \in Phases :
         \E lmp \in cycle_utils_generate_lmp_for_phase(clock, target_phase,
                                                       LmpDraws.days_ago) :
           last' = [NoLast EXCEPT !.op = "cycle_utils.generate_lmp_for_phase",
                                  !.phase = target_phase,
                                  !.observation = <<lmp>>]
    /\ UNCHANGED <<pc, clock, args, intervention_patients, schedule, idx, tracker,
                   baseline, generated, dir_exists, dir, first_output, phase_pool, rng>>

NextLmp ==
    \/ GenerateLmpForPhase
    \/ CycleUtilsGenerateLmpForPhase

SpecLmp == InitLmp /\ [][NextLmp]_vars

-----------------------------------------------------------------------------
(* Properties *)

\* C1: two runs of generate_responses with the same seed and the same
\* arguments, started at different wall-clock times, leave byte-identical
\* sets of output documents (stated for runs that complete).
C1_SameSeedSameDocuments ==
    (rng.run = 2 /\ pc = "done" /\ rng.error = "none") => dir = first_output

\* C2: after the full pipeline (longitudinal generation of P patients x K
\* observations into a clean directory, then the retrofit pass) the output
\* directory holds exactly P * K response documents.
C2_ExactlyPKDocuments ==
    pc = "done" =>
      Cardinality(DOMAIN dir) = args.num_patients * args.observations_per_patient

\* C3: retrofit_cohort saves every loaded record back to the file it was
\* loaded from: after a pass the set of file names is unchanged and each
\* file holds the edited in-memory record that was loaded from it.
C3_SavedBackToOwnFile ==
    (last.op = "retrofit_cohort" /\ last.error = "none") =>
      /\ DOMAIN dir = DOMAIN last.before
      /\ \A i \in DOMAIN last.names : dir[last.names[i]] = last.responses[i]

\* C4: a second retrofit_cohort run immediately after a first one on the
\* same directory changes no file of it.
C4_SecondRetrofitChangesNothing ==
    (last.op = "retrofit_cohort" /\ last.after_retrofit) => dir = last.before

C6_PhaseCountsWithinBand ==
    (pc = "balance" /\ args.num_patients = 20 /\ args.observations_per_patient = 4
       /\ idx = 80) =>
      /\ 32 <= tracker.stats.follicular_count /\ tracker.stats.follicular_count <= 48
      /\ 32 <= tracker.stats.luteal_count /\ tracker.stats.luteal_count <= 48

C6_Witness ==
    /\ pc = "balance"
    /\ args.num_patients = 20 /\ args.observations_per_patient = 4
    /\ idx = 80
    /\ tracker.stats.follicular_count = 48
    /\ tracker.stats.luteal_count = 32

\* C7: for every observation, the document the serializer writes carries
\* the intervention flag in field 10: is_intervention of the document, and
\* the validator's keyword test, hold exactly when the observation was
\* generated with in_intervention = true.
C7_InterventionFlagCarried ==
    pc = "retrofit" =>
      \A i \in DOMAIN generated :
        LET document == dir[generated[i].response_id]
            flag == generated[i].observation.in_intervention
        IN  /\ is_intervention(document) <=> flag
            /\ validator_is_intervention(document) <=> flag

\* C8: for every document the validator classifies phase and intervention
\* membership exactly as the retrofit pass does.
C8_SameClassification ==
    \A n \in DOMAIN dir :
      /\ calculate_phase(dir[n]) = extract_phase(dir[n])
      /\ validator_is_intervention(dir[n]) <=> is_intervention(dir[n])

\* C9: generate_observation called with a phase label outside
\* {follicular, luteal} fails with InvalidPhase and yields no observation;
\* neither the sampler nor the tracker treats the label as a phase.
C9_InvalidPhaseRejected ==
    (last.op = "generate_observation" /\ last.phase \notin Phases) =>
      /\ last.error = "InvalidPhase"
      /\ last.observation = <<>>
      /\ tracker = last.before

\* C10: retrofit_cohort and validate_all on a missing directory, or on one
\* with no response document, fail with a not-found error before any
\* statistic is computed and before any file is written.
C10_NotFoundBeforeProcessing ==
    (last.op \in {"retrofit_cohort", "validate_all"} /\ last.before = <<>>) =>
      /\ last.error \in {"NotFound", NoResponsesFound}
      /\ \A i \in DOMAIN last.steps : last.steps[i] \in {"load_cohort", "load_responses"}
      /\ last.written = 0
\* C11: adjust_awakenings and adjust_symptom_rates applied to an empty
\* record group return without raising and without editing any record.
C11_EmptyGroupIsNoOp ==
    (last.op \in {"adjust_awakenings", "adjust_symptom_rates"} /\ last.before = <<>>) =>
      /\ last.error = "none"
      /\ last.responses = last.before

\* C12: for every non-empty loaded cohort, including one in which a phase
\* subgroup is empty, validate_all returns a (passed, total) tally without
\* raising; failed checks only show as results with passed = false.
C12_ValidateAllReturnsTally ==
    (last.op = "validate_all" /\ last.before # <<>>) =>
      /\ last.error = "none"
      /\ last.total = Len(last.results)
      /\ last.passed = Cardinality({i \in DOMAIN last.results : last.results[i].passed})

\* C13: for every observation date D, every target phase P in {follicular,
\* luteal} and every days-ago offset the sampler can draw,
\* calculate_phase_from_lmp(generate_lmp_for_phase(D, P), D) = P.
C13_PhaseLmpRoundTrip ==
    (pc = "lmp" /\ last.op # "none") =>
      calculate_phase_from_lmp(last.observation[1], clock) = last.phase

\* the last offset of the follicular range, for an observation made after
\* midnight
C13_Witness ==
    /\ pc = "lmp"
    /\ last.op = "generate_lmp_for_phase"
    /\ last.phase = Follicular
    /\ clock.tod = 1
    /\ clock.day - last.observation[1].day = 13

\* C14: for any sequence of generate_observation calls on one
\* PatientGenerator, all observations with the same patient id carry
\* identical age, years-since-diagnosis, delivery method and cycle
\* regularity, whatever correction factors are passed to the later calls.
C14_StableTraitsPerPatient ==
    pc = "sampler" =>
      \A i, j \in DOMAIN generated :
        LET a == generated[i].observation
            b == generated[j].observation
        IN  a.patient_id = b.patient_id =>
              /\ a.age = b.age
              /\ a.years_since_diagnosis = b.years_since_diagnosis
              /\ a.insulin_delivery_method = b.insulin_delivery_method
              /\ a.cycle_regularity = b.cycle_regularity

\* a second observation of a patient, sampled with age_shift and prefer_pump
\* in the correction map, after a first one sampled without corrections
C14_Witness ==
    /\ pc = "sampler"
    /\ Len(generated) = 2
    /\ generated[1].observation.patient_id = generated[2].observation.patient_id
    /\ generated[1].observation.insulin_delivery_method = "Multiple Daily Injections"
    /\ last.op = "generate_observation"
    /\ {"age_shift", "prefer_pump"} \subseteq DOMAIN last.corrections

C16_SymptomCountIsRoundedTarget ==
    (last.op = "adjust_symptom_rates" /\ last.before # <<>> /\ last.error = "none") =>
      \A S \in DOMAIN symptom_targets(last.phase) :
        LET n == Len(last.before)
            rate == symptom_targets(last.phase)[S]
            had == {i \in 1..n : has_symptom(last.before[i], S)}
            has == {i \in 1..n : has_symptom(last.responses[i], S)}
            within == 100 * Abs(100 * Cardinality(had) - rate * n) < 100 * n
        IN  /\ ~within => Cardinality(has) = RoundDiv(rate * n, 100)
            /\ Cardinality(has \ had) <= n - Cardinality(had)
            /\ Cardinality(had \ has) <= Cardinality(had)

\* C17: when the group's mean awakenings is not within 0.01 of the target,
\* adjust_awakenings applies exactly min(round(|target - currentMean| x n),
\* number of feasible candidates) edits, each a +1 or -1 toward the target
\* on a distinct record; otherwise it edits nothing.
C17_AwakeningsEditCount ==
    (last.op = "adjust_awakenings" /\ last.before # <<>> /\ last.error = "none") =>
      LET n == Len(last.before)
          values == [i \in 1..n |-> awakenings_of(last.before[i])]
          num == awakenings_target(last.phase) * n - 10 * SumOver(values, 1..n)
          within == 100 * Abs(num) < 10 * n
          need_increase == num > 0
          feasible == {i \in 1..n : IF need_increase THEN values[i] <= 1
                                    ELSE values[i] >= 2}
          edited == {i \in 1..n : last.responses[i] # last.before[i]}
      IN  IF within THEN edited = {}
          ELSE /\ Cardinality(edited) = Min(RoundDiv(Abs(num), 10), Cardinality(feasible))
               /\ \A i \in edited :
                    last.responses[i] =
                      set_awakenings(last.before[i],
                                     values[i] + (IF need_increase THEN 1 ELSE -1))

\* C18: when the mean glucose of the intervention-luteal records differs
\* from target = glucose_follicular_mean + 0.10 x luteal_glucose_increase by
\* 0.5 or more, adjust_intervention_effect adds one common shift to every
\* record so that the new mean equals the target exactly and every edited
\* value lies in [70, 180]; when the difference is below 0.5 it edits nothing.
C18_InterventionMeanHitsTarget ==
    (last.op = "adjust_intervention_effect" /\ last.before # <<>>
       /\ last.error = "none") =>
      LET n == Len(last.before)
          was == [i \in 1..n |-> glucose_of(last.before[i])]
          now == [i \in 1..n |-> glucose_of(last.responses[i])]
          \* target in hundredths of mg/dL: 118.81
          target100 == 10 * GlucoseFollicularMeanTenths
                       + (LutealGlucoseIncreaseTenths * 10) \div 10
          far == Abs(10 * SumOver(was, 1..n) - target100 * n) >= 50 * n
      IN  IF ~far THEN last.responses = last.before
          ELSE /\ \A i, j \in 1..n : now[i] - was[i] = now[j] - was[j]
               /\ 10 * SumOver(now, 1..n) = target100 * n
               /\ \A i \in 1..n : 700 <= now[i] /\ now[i] <= 1800
               /\ \A i \in 1..n : last.responses[i] = set_glucose(last.before[i], now[i])

\* C19: applying adjust_awakenings, adjust_symptom_rates or
\* adjust_intervention_effect a second time to the same record list with the
\* same target, immediately after a first application, changes no record.
C19_SecondApplicationChangesNothing ==
    (pc = "adjust" /\ Len(last.steps) = 2 /\ last.steps[1] = last.steps[2]) =>
      last.responses = last.before

\* C20: for every cohort of N >= 50 observations generated with the default
\* parameters (any seed, any random outcome), running retrofit and then
\* validate_all yields passed >= 0.80 x total.
C20_EightyPercentPass ==
    (/\ last.op = "validate_all"
     /\ Len(schedule) >= CohortSize
     /\ pc = "done"
     /\ rng.error = "none")
      => /\ last.error = "none"
         /\ 10 * last.passed >= 8 * last.total

\* ---------------------------------------------------------------------
\* cohort_tracker.py: should_use_intervention deciding the intervention
\* flag of every slot of a run of N observations, each decision recorded
\* ---------------------------------------------------------------------
MaxSlots == 5            \* quota runs: target_total <= this

InitQuota ==
    /\ pc = "quota"
    /\ clock = DateTime(0, 0)
    /\ args \in {[num_patients |-> n, observations_per_patient |-> 1,
                  intervention_count |-> target, one_per_patient |-> TRUE] :
                   n \in 1..MaxSlots, target \in 0..MaxSlots}
    /\ args.intervention_count <= args.num_patients
    /\ intervention_patients = {}
    /\ schedule = <<>>
    /\ idx = 0
    /\ tracker = CohortTracker(args.num_patients, args.intervention_count)
    /\ baseline = EmptyDict
    /\ generated = <<>>
    /\ dir_exists = FALSE
    /\ dir = <<>>
    /\ last = NoLast
    /\ first_output = <<>>
    /\ phase_pool = [p \in Phases |-> 0]
    /\ rng = FreshRng

\* slot k = idx: the flag is should_use_intervention(N - k), and the
\* observation carrying it, of either phase and any delivery method and
\* regularity, goes through record_observation
QuotaStep ==
    /\ pc = "quota"
    /\ idx < tracker.target_total
    /\ \E phase \in Phases,
          delivery \in {"Insulin Pump", "Multiple Daily Injections"},
          regularity \in {"Very regular (predictable)", "Somewhat regular", "Irregular"} :
         LET remaining == tracker.target_total - idx
             in_intervention == should_use_intervention(tracker, remaining)
             observation == [BalanceObservation(phase) EXCEPT
                               !.in_intervention = in_intervention,
                               !.insulin_delivery_method = delivery,
                               !.cycle_regularity = regularity]
         IN  /\ tracker' = record_observation(tracker, observation)
             /\ last' = [NoLast EXCEPT !.op = "should_use_intervention",
                                       !.before = tracker,
                                       !.total = remaining,
                                       !.results = <<in_intervention>>]
    /\ idx' = idx + 1
    /\ UNCHANGED <<pc, clock, args, intervention_patients, schedule, baseline,
                   generated, dir_exists, dir, first_output, phase_pool, rng>>

SpecQuota == InitQuota /\ [][QuotaStep]_vars

\* ---------------------------------------------------------------------
\* main.py: the loop of generate_responses_one_per_patient, phase only.
\* The function builds no schedule: the phase of a patient is chosen
\* inside that patient's iteration
\* ---------------------------------------------------------------------
MaxCrossPatients == 10   \* cross-sectional phase runs: num_patients <= this

InitCross ==
    /\ pc = "cross"
    /\ clock = DateTime(0, 0)
    /\ args \in {[num_patients |-> n, observations_per_patient |-> 1,
                  intervention_count |-> 0, one_per_patient |-> TRUE] :
                   n \in 1..MaxCrossPatients}
    /\ intervention_patients = {}
    /\ schedule = <<>>
    /\ idx = 0
    /\ tracker = CohortTracker(args.num_patients, 0)
    /\ baseline = EmptyDict
    /\ generated = <<>>
    /\ dir_exists = FALSE
    /\ dir = <<>>
    /\ last = NoLast
    /\ first_output = <<>>
    /\ phase_pool = EmptyPool
    /\ rng = FreshRng

\* the iteration of patient_num = idx + 1: is_corrective is
\* patient_num > checkpoint; the free pass draws the phase 50/50
CrossStep ==
    /\ pc = "cross"
    /\ idx < args.num_patients
    /\ LET patient_num == idx + 1
           is_corrective == patient_num > checkpoint_of(args.num_patients)
       IN  \E target_phase \in (IF is_corrective
                                THEN get_target_phase_for_balance(tracker)
                                ELSE Phases) :
             /\ tracker' = record_phase(tracker, target_phase)
             /\ last' = [NoLast EXCEPT !.op = "generate_observation",
                                       !.phase = target_phase]
    /\ idx' = idx + 1
    /\ UNCHANGED <<pc, clock, args, intervention_patients, schedule, baseline,
                   generated, dir_exists, dir, first_output, phase_pool, rng>>

SpecCross == InitCross /\ [][CrossStep]_vars

\* ---------------------------------------------------------------------
\* patient_generator.py: the public methods of one PatientGenerator that
\* read or fill _baseline_characteristics, called in any order
\* ---------------------------------------------------------------------
MaxApiCalls == 3         \* method calls made on one PatientGenerator

InitCalls ==
    /\ pc = "calls"
    /\ clock = DateTime(0, 0)
    /\ args = NoArgs
    /\ intervention_patients = {}
    /\ schedule = <<>>
    /\ idx = 0
    /\ tracker = CohortTracker(0, 0)
    /\ baseline = EmptyDict
    /\ generated = <<>>
    /\ dir_exists = FALSE
    /\ dir = <<>>
    /\ last = NoLast
    /\ first_output = <<>>
    /\ phase_pool = EmptyPool
    /\ rng = FreshRng

GenerateBasalInsulin ==
    /\ pc = "calls"
    /\ idx < MaxApiCalls
    /\ \E patient_id \in 1..2, phase \in Phases, in_intervention \in BOOLEAN :
         \E o \in generate_basal_insulin(baseline, patient_id, phase,
                                         in_intervention, 0, SamplerDraws) :
           /\ baseline' = o.cache
           /\ last' = [NoLast EXCEPT !.op = "generate_basal_insulin",
                                     !.phase = phase,
                                     !.results = <<o.dose>>]
    /\ idx' = idx + 1
    /\ UNCHANGED <<pc, clock, args, intervention_patients, schedule, tracker,
                   generated, dir_exists, dir, first_output, phase_pool, rng>>

GenerateStablePatientCharacteristics ==
    /\ pc = "calls"
    /\ idx < MaxApiCalls
    /\ \E patient_id \in 1..2, correction_factors \in CorrectionMaps :
         \E o \in generate_stable_patient_characteristics(baseline, patient_id,
                                                          correction_factors,
                                                          SamplerDraws) :
           /\ baseline' = o.cache
           /\ last' = [NoLast EXCEPT !.op = "generate_stable_patient_characteristics",
                                     !.corrections = correction_factors,
                                     !.observation = <<o.stable>>]
    /\ idx' = idx + 1
    /\ UNCHANGED <<pc, clock, args, intervention_patients, schedule, tracker,
                   generated, dir_exists, dir, first_output, phase_pool, rng>>

SpecCalls ==
    InitCalls /\ [][GenerateBasalInsulin \/ GenerateStablePatientCharacteristics]_vars

\* C21: in both generation modes no document is written to storage before
\* every schedule entry has been generated and recorded in the tracker, the
\* retrofit pass starts only after the last document has been written, and
\* every run that consumes the whole schedule runs the retrofit pass.
C21_BufferThenSaveThenRetrofit ==
    /\ [](LET total == IF args.one_per_patient THEN args.num_patients
                       ELSE args.num_patients * args.observations_per_patient
              stems == {generated[i].response_id : i \in DOMAIN generated}
          IN  /\ DOMAIN dir # {} =>
                   /\ pc \notin {"start", "generate"}
                   /\ idx = total
                   /\ Len(generated) = total
                   /\ tracker.stats.total_observations = total
              /\ last.op = "retrofit_cohort" =>
                   /\ Cardinality(stems) = total
                   /\ stems \subseteq DOMAIN last.before
              /\ pc \notin {"start", "generate"} => idx = total)
    /\ (pc \in {"save", "retrofit"}) ~> (last.op = "retrofit_cohort")

\* a one-per-patient run of two patients whose retrofit pass has just run
\* on the two documents
C21_Witness ==
    /\ args.one_per_patient
    /\ args.num_patients = 2
    /\ pc = "done"
    /\ last.op = "retrofit_cohort"
    /\ DOMAIN last.before = {<<1>>, <<2>>}

\* C22: with at least one observation recorded, get_target_phase_for_balance
\* returns follicular for every random draw when the follicular ratio is
\* below 0.40 and luteal for every draw when it is above 0.60; otherwise it
\* picks follicular with probability 0.60 when the ratio is below 0.50 and
\* 0.40 when above 0.50, so whenever the ratio is below 0.48 the probability
\* of follicular is at least 0.6.  Every corrective iteration records the
\* phase of such a call.
C22_PhaseBias ==
    /\ [](LET f == tracker.stats.follicular_count
              n == tracker.stats.total_observations
              fol == {u \in UnitDraws : target_phase_for_draw(tracker, u) = Follicular}
          IN  n >= 1 =>
                /\ get_target_phase_for_balance(tracker)
                     = {target_phase_for_draw(tracker, u) : u \in UnitDraws}
                /\ 10 * f < 4 * n => fol = UnitDraws
                /\ 10 * f > 6 * n => fol = {}
                /\ (10 * f >= 4 * n /\ 2 * f < n) =>
                     10 * Cardinality(fol) = 6 * Cardinality(UnitDraws)
                /\ (10 * f <= 6 * n /\ 2 * f > n) =>
                     10 * Cardinality(fol) = 4 * Cardinality(UnitDraws)
                /\ 100 * f < 48 * n =>
                     10 * Cardinality(fol) >= 6 * Cardinality(UnitDraws))
    /\ [][LET f == tracker.stats.follicular_count
              n == tracker.stats.total_observations
          IN  (pc = "balance" /\ n >= 1 /\ idx >= checkpoint_of(tracker.target_total)) =>
                \E u \in UnitDraws :
                  tracker'.stats.follicular_count
                    = f + (IF target_phase_for_draw(tracker, u) = Follicular THEN 1 ELSE 0)
         ]_vars

\* a corrective iteration has run and left the ratio in [0.40, 0.48)
C22_Witness ==
    /\ pc = "balance"
    /\ idx > checkpoint_of(tracker.target_total)
    /\ 10 * tracker.stats.follicular_count >= 4 * tracker.stats.total_observations
    /\ 100 * tracker.stats.follicular_count < 48 * tracker.stats.total_observations

\* C23: when should_use_intervention(remaining = N - k) decides the flag of
\* every slot k = 0..N-1 and each decision is recorded, the final
\* intervention count equals the target for every 0 <= target <= N; the
\* call returns false once the quota is met and true whenever the need is
\* at least the number of remaining slots.
C23_QuotaMet ==
    pc = "quota" =>
      /\ tracker.stats.intervention_count <= tracker.target_intervention
      /\ idx = tracker.target_total =>
           tracker.stats.intervention_count = tracker.target_intervention
      /\ last.op = "should_use_intervention" =>
           LET needed == last.before.target_intervention
                           - last.before.stats.intervention_count
           IN  /\ needed <= 0 => last.results = <<FALSE>>
               /\ (needed > 0 /\ needed >= last.total) => last.results = <<TRUE>>

\* a run of four slots with a target of two has ended with the quota met,
\* the last slot flagged because one was still needed and one slot remained
C23_Witness ==
    /\ pc = "quota"
    /\ tracker.target_total = 4
    /\ tracker.target_intervention = 2
    /\ idx = 4
    /\ tracker.stats.intervention_count = 2
    /\ last.total = 1
    /\ last.results = <<TRUE>>

\* C24: in cross-sectional mode (one entry per patient) the phases given to
\* the patients form a balanced partition: when the loop has ended the
\* numbers of follicular and luteal patients differ by at most one,
\* whatever the random draws were.
C24_BalancedPartition ==
    (pc = "cross" /\ idx = args.num_patients) =>
      /\ tracker.stats.follicular_count - tracker.stats.luteal_count <= 1
      /\ tracker.stats.luteal_count - tracker.stats.follicular_count <= 1

\* C25: for every document serialized from an observation generated with
\* phase P, the phase that CohortValidator._calculate_phase derives from the
\* document (its LMP answer against its authored timestamp) equals P.
C25_ValidatorPhaseIsGeneratedPhase ==
    \A i \in DOMAIN generated :
       generated[i].response_id \in DOMAIN dir =>
         calculate_phase(dir[generated[i].response_id])
           = generated[i].observation.phase

\* C26: no retrofit edit changes the phase that extract_phase derives for a
\* record: a record that retrofit_cohort loaded and classified luteal
\* (glucose >= 122) is still classified luteal after the edits of the pass,
\* adjust_intervention_effect included.
C26_RetrofitKeepsPhase ==
    (last.op = "retrofit_cohort" /\ last.error = "none") =>
      LET loaded == load_cohort(last.before)
      IN  \A i \in DOMAIN loaded \cap DOMAIN last.responses :
             extract_phase(loaded[i]) = Luteal
               => extract_phase(last.responses[i]) = Luteal

\* C27: when adjust_symptom_rates adds or removes a symptom on a record,
\* every other symptom answer of that record (Weakness/Fatigue included, and
\* the wording of the answers that stay) and every other field of the record
\* are left unchanged, and records not selected for the edit are unchanged:
\* an answer of field 9 that names none of the three adjusted symptoms, or
\* whose symptom the record still has after the call, is still there as it
\* was written.
C27_OnlyTheAdjustedSymptomChanges ==
    (last.op = "adjust_symptom_rates" /\ last.error = "none") =>
      \A i \in DOMAIN last.before :
         LET b == last.before[i]
             a == last.responses[i]
         IN  /\ [a EXCEPT !.item[9] = b.item[9]] = b
             /\ \A text \in Range(b.item[9]) :
                   LET named == get_symptoms_of(<<text>>)
                   IN  (named = <<>> \/ has_symptom(a, named[1]))
                         => text \in Range(a.item[9])

\* C28: for each of night sweats, palpitations and dizziness and for every
\* document, whether written by the serializer or edited by retrofit,
\* CohortValidator counts the document as having the symptom exactly when
\* get_symptoms reports the symptom for it.
C28_ValidatorAndRetrofitAgreeOnSymptoms ==
    \A n \in DOMAIN dir :
       /\ validator_has_symptom(dir[n], "Night sweats")
            <=> has_symptom(dir[n], "night-sweats")
       /\ validator_has_symptom(dir[n], "Palpitations")
            <=> has_symptom(dir[n], "palpitations")
       /\ validator_has_symptom(dir[n], "Dizziness")
            <=> has_symptom(dir[n], "dizziness")

\* C29: after any sequence of record_observation calls on a CohortTracker no
\* counter or list length has ever decreased, and total_observations =
\* follicular_count + luteal_count = pump_count + injection_count =
\* very_regular_count + somewhat_regular_count + irregular_count = len(ages),
\* len(luteal_glucose) = luteal_count = len(luteal_glucose_intervention) +
\* len(luteal_glucose_non_intervention), and intervention_count <=
\* total_observations.
C29_TrackerCountsConsistent ==
    /\ [](pc = "quota" =>
            LET st == tracker.stats
            IN  /\ st.total_observations = st.follicular_count + st.luteal_count
                /\ st.total_observations = st.pump_count + st.injection_count
                /\ st.total_observations = st.very_regular_count
                                             + st.somewhat_regular_count
                                             + st.irregular_count
                /\ st.total_observations = Len(st.ages)
                /\ Len(st.luteal_glucose) = st.luteal_count
                /\ st.luteal_count = Len(st.luteal_glucose_intervention)
                                       + Len(st.luteal_glucose_non_intervention)
                /\ st.intervention_count <= st.total_observations
                /\ st.total_observations = idx)
    /\ [][pc = "quota" =>
            /\ \A c \in {"total_observations", "follicular_count", "luteal_count",
                          "intervention_count", "pump_count", "injection_count",
                          "very_regular_count", "somewhat_regular_count",
                          "irregular_count", "follicular_night_sweats",
                          "follicular_palpitations", "follicular_dizziness",
                          "luteal_night_sweats", "luteal_palpitations",
                          "luteal_dizziness"} :
                  tracker'.stats[c] >= tracker.stats[c]
            /\ \A l \in {"ages", "follicular_glucose", "luteal_glucose",
                          "luteal_glucose_non_intervention",
                          "luteal_glucose_intervention", "follicular_basal",
                          "luteal_basal", "follicular_awakenings",
                          "luteal_awakenings"} :
                  Len(tracker'.stats[l]) >= Len(tracker.stats[l])
       ]_vars

\* three observations recorded: both phases, both delivery methods, a flagged
\* luteal observation and one that is not very regular
C29_Witness ==
    /\ pc = "quota"
    /\ tracker.stats.total_observations = 3
    /\ tracker.stats.follicular_count = 1
    /\ tracker.stats.injection_count = 1
    /\ tracker.stats.somewhat_regular_count = 1
    /\ Len(tracker.stats.luteal_glucose_intervention) = 1
    /\ Len(tracker.stats.luteal_glucose_non_intervention) = 1

\* C30: for any order of calls to the public methods of one PatientGenerator,
\* in particular generate_basal_insulin for a patient before any other call
\* for that patient, generate_stable_patient_characteristics returns a
\* record that contains age, years_since_diagnosis, insulin_delivery_method
\* and cycle_regularity.
C30_StableRecordIsComplete ==
    last.op = "generate_stable_patient_characteristics" =>
      StableKeys \subseteq DOMAIN last.observation[1]

====
